---------------------------- MODULE Spec2Model ----------------------------
(***************************************************************************)
(* Label-to-account matching of the financial statement mapper:           *)
(*   - SmartMatcher.match_accounts            (src/app_v2.py)              *)
(*   - IntelligentMapper / StructuredMapper   (src/intelligent_mapper.py)  *)
(*   - EnhancedAIProcessor / KnowledgeExtractor (src/src/core)             *)
(* A string is the sequence of its characters, so that lower(), strip(),   *)
(* split(), substring tests and the similarity ratios are computed and     *)
(* not assumed.  The remote model (OpenRouter) is the environment: every   *)
(* request either fails or returns a payload chosen from a bounded set.    *)
(***************************************************************************)
EXTENDS Integers, Sequences, FiniteSets, TLC

(***************************************************************************)
(* Python str operations                                                   *)
(***************************************************************************)
UpperToLower ==
    [A |-> "a", B |-> "b", C |-> "c", D |-> "d", E |-> "e", F |-> "f",
     G |-> "g", H |-> "h", I |-> "i", J |-> "j", K |-> "k", L |-> "l",
     M |-> "m", N |-> "n", O |-> "o", P |-> "p", Q |-> "q", R |-> "r",
     S |-> "s", T |-> "t", U |-> "u", V |-> "v", W |-> "w", X |-> "x",
     Y |-> "y", Z |-> "z"]

Alphabet ==
    <<"a", "b", "c", "d", "e", "f", "g", "h", "i", "j", "k", "l", "m",
      "n", "o", "p", "q", "r", "s", "t", "u", "v", "w", "x", "y", "z">>

\* code point order of the characters that survive lower(): " " < "a" < ... < "z"
Ord(c) ==
    IF c = " " THEN 0 ELSE CHOOSE i \in 1..Len(Alphabet) : Alphabet[i] = c

LowerCh(c) ==
    IF c \in DOMAIN UpperToLower THEN UpperToLower[c] ELSE c

\* str.lower()
lower(s) ==
    [i \in 1..Len(s) |-> LowerCh(s[i])]

RECURSIVE lstrip(_)
lstrip(s) ==
    IF s # <<>> /\ Head(s) = " " THEN lstrip(Tail(s)) ELSE s

RECURSIVE rstrip(_)
rstrip(s) ==
    IF s # <<>> /\ s[Len(s)] = " " THEN rstrip(SubSeq(s, 1, Len(s) - 1)) ELSE s

\* str.strip()
strip(s) ==
    rstrip(lstrip(s))

\* needle in hay (substring test; the empty string is in every string)
Contains(needle, hay) ==
    \E i \in 0..(Len(hay) - Len(needle)) :
        SubSeq(hay, i + 1, i + Len(needle)) = needle

RECURSIVE SplitFrom(_, _, _)
SplitFrom(s, cur, acc) ==
    IF s = <<>>
    THEN IF cur = <<>> THEN acc ELSE Append(acc, cur)
    ELSE IF Head(s) = " "
         THEN SplitFrom(Tail(s), <<>>, IF cur = <<>> THEN acc ELSE Append(acc, cur))
         ELSE SplitFrom(Tail(s), Append(cur, Head(s)), acc)

\* str.split(): the whitespace separated words, in order
split(s) ==
    SplitFrom(s, <<>>, <<>>)

RECURSIVE StrLess(_, _)
StrLess(a, b) ==
    IF b = <<>> THEN FALSE
    ELSE IF a = <<>> THEN TRUE
    ELSE IF Head(a) = Head(b) THEN StrLess(Tail(a), Tail(b))
    ELSE Ord(Head(a)) < Ord(Head(b))

RECURSIVE sorted(_)
\* sorted(set of strings)
sorted(S) ==
    IF S = {} THEN <<>>
    ELSE LET m == CHOOSE x \in S : \A y \in S \ {x} : StrLess(x, y)
         IN  <<m>> \o sorted(S \ {m})

RECURSIVE join(_)
\* " ".join(seq)
join(ws) ==
    IF ws = <<>> THEN <<>>
    ELSE IF Len(ws) = 1 THEN ws[1]
    ELSE ws[1] \o <<" ">> \o join(Tail(ws))

ToSet(seq) ==
    {seq[i] : i \in 1..Len(seq)}

Max2(a, b) ==
    IF a >= b THEN a ELSE b

Min2(a, b) ==
    IF a <= b THEN a ELSE b

(***************************************************************************)
(* fuzzywuzzy.fuzz as the mappers call it.  ratio is 2*M/T with M the      *)
(* number of matched characters (longest common subsequence, the           *)
(* python-Levenshtein backend) and T the total length, times 100, rounded  *)
(* by Python's round() (half to even).                                     *)
(***************************************************************************)
\* length of a longest common subsequence of a[1..i] and b[1..j]
RECURSIVE LcsUpTo(_, _, _, _)
LcsUpTo(a, b, i, j) ==
    IF i = 0 \/ j = 0 THEN 0
    ELSE IF a[i] = b[j] THEN 1 + LcsUpTo(a, b, i - 1, j - 1)
    ELSE Max2(LcsUpTo(a, b, i - 1, j), LcsUpTo(a, b, i, j - 1))

LCS(a, b) ==
    LcsUpTo(a, b, Len(a), Len(b))

\* int(round(100 * num / den)), den > 0
RoundPct(num, den) ==
    LET q == (100 * num) \div den
        r == (100 * num) % den
    IN  IF 2 * r < den THEN q
        ELSE IF 2 * r > den THEN q + 1
        ELSE IF q % 2 = 0 THEN q ELSE q + 1

\* fuzz.ratio
ratio(a, b) ==
    IF a = b THEN 100
    ELSE IF a = <<>> \/ b = <<>> THEN 0
    ELSE RoundPct(2 * LCS(a, b), Len(a) + Len(b))

\* fuzz.partial_ratio: the ratio of the shorter string against the best
\* window of its length in the longer one
partial_ratio(a, b) ==
    IF a = b THEN 100
    ELSE IF a = <<>> \/ b = <<>> THEN 0
    ELSE LET shorter == IF Len(a) <= Len(b) THEN a ELSE b
             longer  == IF Len(a) <= Len(b) THEN b ELSE a
             n       == Len(shorter)
             scores  == {ratio(shorter, SubSeq(longer, k + 1, k + n)) :
                            k \in 0..(Len(longer) - n)}
         IN  CHOOSE s \in scores : \A t \in scores : t <= s

\* utils.full_process on strings of letters and blanks: lower().strip()
full_process(s) ==
    strip(lower(s))

\* fuzz.token_set_ratio
token_set_ratio(s1, s2) ==
    LET p1 == full_process(s1)
        p2 == full_process(s2)
    IN  IF p1 = <<>> \/ p2 = <<>> THEN 0
        ELSE LET tokens1 == ToSet(split(p1))
                 tokens2 == ToSet(split(p2))
                 sorted_sect == join(sorted(tokens1 \cap tokens2))
                 sorted_1to2 == join(sorted(tokens1 \ tokens2))
                 sorted_2to1 == join(sorted(tokens2 \ tokens1))
                 combined_1to2 == strip(sorted_sect \o <<" ">> \o sorted_1to2)
                 combined_2to1 == strip(sorted_sect \o <<" ">> \o sorted_2to1)
             IN  Max2(ratio(sorted_sect, combined_1to2),
                      Max2(ratio(sorted_sect, combined_2to1),
                           ratio(combined_1to2, combined_2to1)))


(***************************************************************************)
(* Inputs.  A label is a string; the account map is a Python dict, kept as *)
(* the sequence of its (name, value) items in iteration order.             *)
(***************************************************************************)
Empty      == <<>>
CashUpper  == <<"C", "A", "S", "H">>
Loan       == <<"L", "o", "a", "n">>
Cash       == <<"C", "a", "s", "h">>
CashAtBank == <<"C", "a", "s", "h", " ", "a", "t", " ", "B", "a", "n", "k">>
CashLower  == <<"c", "a", "s", "h">>
Xyz        == <<"X", "y", "z">>
Loans      == <<"L", "o", "a", "n", "s">>
CashLoan   == <<"C", "a", "s", "h", " ", "L", "o", "a", "n">>
Payable    == <<"P", "a", "y", "a", "b", "l", "e">>
BankLoan   == <<"B", "a", "n", "k", " ", "L", "o", "a", "n">>
Sales      == <<"S", "a", "l", "e", "s">>

MaxLabels   == 2
MaxAccounts == 2

LabelUniverse == {CashUpper, Loan}
AcctUniverse  == {CashAtBank, Cash}

\* the inputs of the runs that look at the structured method alone: labels
\* and accounts of two categories, 'Cash Loan' being an asset by the order
\* of the keyword table
MaxStructAccounts == 3

StructLabelUniverse == {CashUpper, Loan, Loans}
StructAcctUniverse  == {Cash, CashLoan, Payable, BankLoan}

\* the labels and the candidate accounts of the calls of the knowledge base
\* alone: 'Sales' and 'Turnover' are variations of 'revenue', the
\* 'Revenue' accounts share its token, 'Net' is part of a variation
MaxCandidates == 4

KnowledgeLabels ==
    {Sales, <<" ", "S", "A", "L", "E", "S", " ">>, <<"N", "e", "t">>, Xyz}

KnowledgeAccounts ==
    {<<"T", "u", "r", "n", "o", "v", "e", "r">>,
     <<"R", "e", "v", "e", "n", "u", "e", " ", "X">>,
     <<"R", "e", "v", "e", "n", "u", "e", " ", "Y">>,
     <<"R", "e", "v", "e", "n", "u", "e", " ", "Z">>,
     Xyz}

\* the value each account carries in the data file (non-zero, pairwise different)
ValueOf(name) ==
    IF name = CashAtBank THEN 500 ELSE 120

SeqsUpTo(S, n) ==
    UNION {[1..k -> S] : k \in 0..n}

LabelLists ==
    SeqsUpTo(LabelUniverse, MaxLabels)

AccountMaps ==
    {[i \in 1..Len(ks) |-> [name |-> ks[i], value |-> ValueOf(ks[i])]] :
        ks \in {q \in SeqsUpTo(AcctUniverse, MaxAccounts) :
                    \A i, j \in 1..Len(q) : i # j => q[i] # q[j]}}

\* excel_accounts.keys()
Keys(A) ==
    [i \in 1..Len(A) |-> A[i].name]

\* name in excel_accounts
HasKey(A, name) ==
    \E i \in 1..Len(A) : A[i].name = name

\* excel_accounts.get(name, 0)
Get(A, name) ==
    IF HasKey(A, name)
    THEN A[CHOOSE i \in 1..Len(A) : A[i].name = name].value
    ELSE 0

\* the similarity scores of the inputs, computed once:
\* fuzz.token_set_ratio(label.lower(), account.lower()) and
\* fuzz.partial_ratio(label.lower(), account.lower())
ScoreTable ==
    {[label |-> l, account |-> a,
      token |-> token_set_ratio(lower(l), lower(a)),
      partial |-> partial_ratio(lower(l), lower(a))] :
        l \in LabelUniverse \cup StructLabelUniverse,
        a \in AcctUniverse \cup StructAcctUniverse}

TokenSetScore(label, account) ==
    (CHOOSE t \in ScoreTable : t.label = label /\ t.account = account).token

PartialScore(label, account) ==
    (CHOOSE t \in ScoreTable : t.label = label /\ t.account = account).partial

(***************************************************************************)
(* Mapping rows (one DataFrame row per label)                              *)
(***************************************************************************)
StatusOf(conf_label) ==
    IF conf_label = "High" THEN "ok" ELSE IF conf_label = "Medium" THEN "warn" ELSE "bad"

\* the High / Medium / Low ladder of _map_batch, _fallback_fuzzy_match,
\* _double_check_uncertain and the fuzzy branch of match_accounts
ConfLabel(score) ==
    IF score >= 90 THEN "High" ELSE IF score >= 70 THEN "Medium" ELSE "Low"

\* a column the strategy's frame does not have
NoColumn == "n/a"

Row(label, account, value, score, conf_label, reasoning, category) ==
    [Status |-> StatusOf(conf_label), Label |-> label, Account |-> account,
     Value |-> value, Confidence |-> conf_label, Score |-> score,
     Reasoning |-> reasoning, Category |-> category]

(***************************************************************************)
(* The remote model.  A payload entry carries the three fields the prompt  *)
(* asks for; each may be missing and the confidence may be a JSON string.  *)
(* Confidences are in hundredths (0.95 is 95).                             *)
(***************************************************************************)
Prop(a, c) ==
    [has_account |-> TRUE, account |-> a, conf_kind |-> "num", confidence |-> c,
     has_reasoning |-> TRUE, reasoning |-> "why"]

NoFields ==
    [has_account |-> FALSE, account |-> Empty, conf_kind |-> "absent", confidence |-> 0,
     has_reasoning |-> FALSE, reasoning |-> ""]

OracleConfidences == {50, 80, 95}

\* well-formed entries: a key of the map at any confidence; the empty string
\* (no match); a key in another spelling; a name that is no account at all
WellFormed(A) ==
    {Prop(a, c) : a \in ToSet(Keys(A)), c \in OracleConfidences}
    \cup {Prop(Empty, 50), Prop(Empty, 95), Prop(CashLower, 95), Prop(Xyz, 95)}

\* entries with a field missing, or with a confidence that is no number
Malformed(A) ==
    {NoFields, [Prop(Empty, 95) EXCEPT !.has_account = FALSE]}
    \cup (IF A = <<>> THEN {}
          ELSE LET a == Keys(A)[1]
               IN  {[Prop(a, 95) EXCEPT !.conf_kind = "absent", !.confidence = 0],
                    [Prop(a, 95) EXCEPT !.conf_kind = "str", !.confidence = 0],
                    [Prop(a, 95) EXCEPT !.has_reasoning = FALSE, !.reasoning = ""]})

Proposals(A) ==
    WellFormed(A) \cup Malformed(A)

(***************************************************************************)
(* IntelligentMapper                                                       *)
(***************************************************************************)
NModels == 3

\* self.models
models ==
    <<"gpt-oss-20b:free", "gpt-oss-120b", "alibaba/tongyi-deepresearch-30b-a3b:free">>

RECURSIVE _call_ai_keep_model(_, _, _, _)
_call_ai_keep_model(index, self_model, retry_count, fails) ==
    IF fails = 0
    THEN [ok |-> TRUE, index |-> index, model |-> self_model, sent |-> 1]
    ELSE IF index < NModels - 1 /\ retry_count < NModels
         THEN LET r == _call_ai_keep_model(index + 1, self_model, retry_count + 1, fails - 1)
              IN  [r EXCEPT !.sent = r.sent + 1]
         ELSE [ok |-> FALSE, index |-> index, model |-> self_model, sent |-> 1]

RECURSIVE _call_ai_retry_same(_, _, _, _)
_call_ai_retry_same(index, self_model, retry_count, fails) ==
    IF fails = 0
    THEN [ok |-> TRUE, index |-> index, model |-> self_model, sent |-> 1]
    ELSE IF retry_count < NModels
         THEN LET r == _call_ai_retry_same(index, self_model, retry_count + 1, fails - 1)
              IN  [r EXCEPT !.sent = r.sent + 1]
         ELSE [ok |-> FALSE, index |-> index, model |-> self_model, sent |-> 1]

\* _call_ai: one request to the current model; on any failure advance to the
\* next model and call again, until the list is exhausted.  fails is the
\* number of consecutive requests, from this one on, that the environment
\* lets fail.  Returns whether a response came back, the model index and
\* self.model afterwards, and the number of requests sent.
RECURSIVE _call_ai(_, _, _, _)
_call_ai(index, self_model, retry_count, fails) ==
    IF fails = 0
    THEN [ok |-> TRUE, index |-> index, model |-> self_model, sent |-> 1]
    ELSE IF index < NModels - 1 /\ retry_count < NModels
         THEN LET r == _call_ai(index + 1, models[index + 2], retry_count + 1, fails - 1)
              IN  [r EXCEPT !.sent = r.sent + 1]
         ELSE [ok |-> FALSE, index |-> index, model |-> self_model, sent |-> 1]

_find_closest_account_keep(account, A) ==
    account

\* _find_closest_account
_find_closest_account(account, A) ==
    LET account_lower == lower(account)
        exact   == {i \in 1..Len(A) : lower(A[i].name) = account_lower}
        partial == {i \in 1..Len(A) :
                       \/ Contains(account_lower, lower(A[i].name))
                       \/ Contains(lower(A[i].name), account_lower)}
        First(S) == CHOOSE i \in S : \A j \in S : i <= j
    IN  IF exact # {} THEN A[First(exact)].name
        ELSE IF partial # {} THEN A[First(partial)].name
        ELSE Empty

\* _parse_ai_response: payload -> clean_mappings (a dict keyed by label)
_parse_ai_response(reply, A) ==
    IF reply.kind = "garbage" THEN [raised |-> FALSE, mappings |-> << >>]
    ELSE IF reply.kind = "notdict" THEN [raised |-> TRUE, mappings |-> << >>]
    ELSE [raised |-> FALSE,
          mappings |->
            [l \in DOMAIN reply.body |->
                LET d == reply.body[l]
                    account == IF d.has_account THEN d.account ELSE Empty
                IN  [account |-> IF account # Empty /\ ~HasKey(A, account)
                                 THEN _find_closest_account(account, A)
                                 ELSE account,
                     conf_kind |-> IF d.conf_kind = "absent" THEN "num" ELSE d.conf_kind,
                     confidence |-> IF d.conf_kind = "absent" THEN 50 ELSE d.confidence,
                     reasoning |-> IF d.has_reasoning THEN d.reasoning ELSE "AI matched"]]]

RECURSIVE FuzzyBest_last_max(_, _, _, _, _)
FuzzyBest_last_max(label, A, i, best_match, best_score) ==
    IF i > Len(A) THEN [match |-> best_match, score |-> best_score]
    ELSE LET score == TokenSetScore(label, A[i].name)
         IN  IF score >= best_score /\ score > 0
             THEN FuzzyBest_last_max(label, A, i + 1, A[i].name, score)
             ELSE FuzzyBest_last_max(label, A, i + 1, best_match, best_score)

\* the best account of _fallback_fuzzy_match and of the fuzzy branch of
\* match_accounts: scan the keys in order, keep the first strictly better one
RECURSIVE FuzzyBest(_, _, _, _, _)
FuzzyBest(label, A, i, best_match, best_score) ==
    IF i > Len(A) THEN [match |-> best_match, score |-> best_score]
    ELSE LET score == TokenSetScore(label, A[i].name)
         IN  IF score > best_score
             THEN FuzzyBest(label, A, i + 1, A[i].name, score)
             ELSE FuzzyBest(label, A, i + 1, best_match, best_score)

\* one row of _fallback_fuzzy_match
FallbackRow(label, A) ==
    LET b == FuzzyBest(label, A, 1, Empty, 0)
    IN  Row(label, b.match, IF b.match # Empty THEN Get(A, b.match) ELSE 0,
            b.score, ConfLabel(b.score), "Fuzzy match (AI unavailable)", NoColumn)

_fallback_fuzzy_match(template_labels, A) ==
    [k \in 1..Len(template_labels) |-> FallbackRow(template_labels[k], A)]

\* one row of the result loop of _map_batch
BatchRow(label, mappings, A) ==
    LET has == label \in DOMAIN mappings
        matched_account == IF has THEN mappings[label].account ELSE Empty
        confidence == IF has THEN mappings[label].confidence ELSE 0
        reasoning == IF has THEN mappings[label].reasoning ELSE ""
    IN  Row(label, matched_account,
            IF matched_account # Empty THEN Get(A, matched_account) ELSE 0,
            confidence, ConfLabel(confidence), reasoning, NoColumn)

\* _map_batch with its result loop run over the labels the reply mentions
\* instead of over template_labels
_map_batch_over_reply(template_labels, A, call, reply) ==
    LET parsed == _parse_ai_response(reply, A)
        Mentioned(l) == l \in DOMAIN parsed.mappings
        mentioned == SelectSeq(template_labels, Mentioned)
        bad_confidence ==
            \E k \in 1..Len(mentioned) : parsed.mappings[mentioned[k]].conf_kind # "num"
    IN  IF ~call.ok \/ parsed.raised \/ bad_confidence
        THEN _fallback_fuzzy_match(template_labels, A)
        ELSE [k \in 1..Len(mentioned) |-> BatchRow(mentioned[k], parsed.mappings, A)]

\* _map_batch: the rows of one batch.  call is the outcome of _call_ai; any
\* exception (no response, unusable payload, a confidence that cannot be
\* compared with 0.9) lands in the fuzzy fallback.
_map_batch(template_labels, A, call, reply) ==
    LET parsed == _parse_ai_response(reply, A)
        bad_confidence ==
            \E k \in 1..Len(template_labels) :
                /\ template_labels[k] \in DOMAIN parsed.mappings
                /\ parsed.mappings[template_labels[k]].conf_kind # "num"
    IN  IF ~call.ok \/ parsed.raised \/ bad_confidence
        THEN _fallback_fuzzy_match(template_labels, A)
        ELSE [k \in 1..Len(template_labels) |->
                 BatchRow(template_labels[k], parsed.mappings, A)]

\* the exact-match loop body with the boost added to the score instead of
\* the score being set
EnhanceRow_additive(row) ==
    IF row.Account # Empty /\ strip(lower(row.Label)) = strip(lower(row.Account))
    THEN LET boosted == Min2(100, row.Score + 10)
         IN  [row EXCEPT !.Score = boosted, !.Confidence = ConfLabel(boosted),
                         !.Status = StatusOf(ConfLabel(boosted))]
    ELSE row

\* one row of the exact-match loop of _validate_and_enhance
EnhanceRow(row) ==
    IF row.Account # Empty /\ strip(lower(row.Label)) = strip(lower(row.Account))
    THEN [row EXCEPT !.Score = 100, !.Confidence = "High", !.Status = "ok"]
    ELSE row

\* _validate_and_enhance on a frame that has rows
_validate_and_enhance(frame) ==
    [k \in 1..Len(frame) |-> EnhanceRow(frame[k])]

Uncertain_tier_only(frame, k) ==
    LET Selected(n) == n >= k /\ frame[n].Confidence \in {"Medium", "Low"}
    IN  SelectSeq([n \in 1..Len(frame) |-> n], Selected)

\* the rows _double_check_uncertain selects, in frame order
RECURSIVE Uncertain(_, _)
Uncertain(frame, k) ==
    IF k > Len(frame) THEN <<>>
    ELSE (IF frame[k].Confidence \in {"Medium", "Low"} \/ frame[k].Account = Empty
          THEN <<k>> ELSE <<>>) \o Uncertain(frame, k + 1)

\* _focused_revalidation: None (ok = FALSE) or the parsed mapping, with an
\* account that is no key replaced by _find_closest_account
_focused_revalidation(answer, A) ==
    IF answer.kind # "json" THEN [some |-> FALSE, mapping |-> NoFields]
    ELSE LET m == answer.body
             account == IF m.has_account THEN m.account ELSE Empty
         IN  IF account # Empty /\ ~HasKey(A, account)
             THEN [some |-> TRUE,
                   mapping |-> [m EXCEPT !.has_account = TRUE,
                                         !.account = _find_closest_account(account, A)]]
             ELSE [some |-> TRUE, mapping |-> m]

\* the loop body of _double_check_uncertain without the update of the
\* Confidence and Status cells
RevalidateRow_score_only(row, improved) ==
    LET m == improved.mapping
        truthy == improved.some /\ m # NoFields
    IN  IF ~truthy THEN [raised |-> FALSE, row |-> row]
        ELSE IF ~m.has_account THEN [raised |-> TRUE, row |-> row]
        ELSE LET r1 == [row EXCEPT !.Account = m.account]
             IN  IF m.conf_kind # "num" THEN [raised |-> TRUE, row |-> r1]
                 ELSE LET r2 == [r1 EXCEPT !.Score = m.confidence]
                      IN  IF ~m.has_reasoning THEN [raised |-> TRUE, row |-> r2]
                          ELSE [raised |-> FALSE,
                                row |-> [r2 EXCEPT
                                    !.Reasoning = m.reasoning \o " [Re-validated]"]]

\* the body of the loop of _double_check_uncertain for one row: the row
\* afterwards and whether a statement raised (KeyError on a missing field,
\* ValueError / TypeError on a confidence that is no number).  The
\* assignments run in source order, so a raise leaves the earlier ones done.
RevalidateRow(row, improved) ==
    LET m == improved.mapping
        truthy == improved.some /\ m # NoFields
    IN  IF ~truthy THEN [raised |-> FALSE, row |-> row]
        ELSE IF ~m.has_account THEN [raised |-> TRUE, row |-> row]
        ELSE LET r1 == [row EXCEPT !.Account = m.account]
             IN  IF m.conf_kind # "num" THEN [raised |-> TRUE, row |-> r1]
                 ELSE LET r2 == [r1 EXCEPT !.Score = m.confidence]
                      IN  IF ~m.has_reasoning THEN [raised |-> TRUE, row |-> r2]
                          ELSE [raised |-> FALSE,
                                row |-> [r2 EXCEPT
                                    !.Reasoning = m.reasoning \o " [Re-validated]",
                                    !.Confidence = ConfLabel(m.confidence),
                                    !.Status = StatusOf(ConfLabel(m.confidence))]]

(***************************************************************************)
(* StructuredMapper                                                        *)
(***************************************************************************)
\* self.account_categories, in dict order
account_categories ==
    <<[category |-> "revenue", keywords |->
          <<<<"r", "e", "v", "e", "n", "u", "e">>,
            <<"s", "a", "l", "e", "s">>,
            <<"i", "n", "c", "o", "m", "e">>,
            <<"f", "e", "e", "s">>,
            <<"t", "u", "r", "n", "o", "v", "e", "r">>>>],
      [category |-> "expense", keywords |->
          <<<<"e", "x", "p", "e", "n", "s", "e">>,
            <<"c", "o", "s", "t">>,
            <<"d", "e", "p", "r", "e", "c", "i", "a", "t", "i", "o", "n">>,
            <<"a", "m", "o", "r", "t", "i", "z", "a", "t", "i", "o", "n">>,
            <<"i", "n", "t", "e", "r", "e", "s", "t">>,
            <<"t", "a", "x">>>>],
      [category |-> "asset", keywords |->
          <<<<"a", "s", "s", "e", "t">>,
            <<"c", "a", "s", "h">>,
            <<"r", "e", "c", "e", "i", "v", "a", "b", "l", "e">>,
            <<"i", "n", "v", "e", "n", "t", "o", "r", "y">>,
            <<"p", "r", "o", "p", "e", "r", "t", "y">>,
            <<"e", "q", "u", "i", "p", "m", "e", "n", "t">>>>],
      [category |-> "liability", keywords |->
          <<<<"l", "i", "a", "b", "i", "l", "i", "t", "y">>,
            <<"p", "a", "y", "a", "b", "l", "e">>,
            <<"l", "o", "a", "n">>,
            <<"b", "o", "r", "r", "o", "w", "i", "n", "g">>,
            <<"d", "e", "b", "t">>>>],
      [category |-> "equity", keywords |->
          <<<<"e", "q", "u", "i", "t", "y">>,
            <<"c", "a", "p", "i", "t", "a", "l">>,
            <<"r", "e", "t", "a", "i", "n", "e", "d">>,
            <<"r", "e", "s", "e", "r", "v", "e">>,
            <<"s", "h", "a", "r", "e">>>>]>>

FirstCategory_last_hit(categories, account_lower) ==
    LET hits == {c \in 1..Len(categories) :
                    \E k \in 1..Len(categories[c].keywords) :
                        Contains(categories[c].keywords[k], account_lower)}
    IN  IF hits = {} THEN "other"
        ELSE categories[CHOOSE c \in hits : \A d \in hits : c >= d].category

\* the first category of the table one of whose keywords occurs in the name
FirstCategory(categories, account_lower) ==
    LET hits == {c \in 1..Len(categories) :
                    \E k \in 1..Len(categories[c].keywords) :
                        Contains(categories[c].keywords[k], account_lower)}
    IN  IF hits = {} THEN "other"
        ELSE categories[CHOOSE c \in hits : \A d \in hits : c <= d].category

\* categorize_account
categorize_account(account_name) ==
    FirstCategory(account_categories, lower(account_name))

\* the categories of the inputs, computed once
CategoryTable ==
    {[name |-> n, category |-> categorize_account(n)] :
        n \in LabelUniverse \cup AcctUniverse \cup StructLabelUniverse
                 \cup StructAcctUniverse}

CategoryOf(name) ==
    (CHOOSE t \in CategoryTable : t.name = name).category

\* str.title() of a category name
Title(c) ==
    CASE c = "revenue" -> "Revenue" [] c = "expense" -> "Expense"
      [] c = "asset" -> "Asset" [] c = "liability" -> "Liability"
      [] c = "equity" -> "Equity" [] OTHER -> "Other"

Candidates_all(label_category, A) ==
    A

\* excel_categorized.get(label_category, {}), or all accounts when it is empty
Candidates(label_category, A) ==
    LET same == SelectSeq(A, LAMBDA it : CategoryOf(it.name) = label_category)
    IN  IF same = <<>> THEN A ELSE same

\* combined_score = token_score * 0.7 + partial_score * 0.3, kept in tenths
CombinedTenths(label, account) ==
    7 * TokenSetScore(label, account) + 3 * PartialScore(label, account)

RECURSIVE StructuredBest(_, _, _, _, _)
StructuredBest(label, cands, i, best_match, best_score) ==
    IF i > Len(cands) THEN [match |-> best_match, score |-> best_score]
    ELSE LET combined_score == CombinedTenths(label, cands[i].name)
         IN  IF combined_score > best_score
             THEN StructuredBest(label, cands, i + 1, cands[i].name, combined_score)
             ELSE StructuredBest(label, cands, i + 1, best_match, best_score)

StructuredRow_tier_before_boost(label, A) ==
    LET label_category == CategoryOf(label)
        b == StructuredBest(label, Candidates(label_category, A), 1, Empty, 0)
        boosted == IF b.match # Empty /\ CategoryOf(b.match) = label_category
                   THEN Min2(10000, 11 * b.score)
                   ELSE 10 * b.score
        confidence == IF 10 * b.score >= 8500 THEN "High"
                      ELSE IF 10 * b.score >= 6500 THEN "Medium" ELSE "Low"
    IN  Row(label, b.match, IF b.match # Empty THEN Get(A, b.match) ELSE 0,
            boosted \div 100, confidence, NoColumn, Title(label_category))

\* one row of create_structured_mappings; scores in hundredths of a point
\* until int() truncates them.  The code computes in binary floating point,
\* which falls short of the exact value for some scores (97 * 0.7 + 57 * 0.3
\* is 84.99999999999999); for the scores of the inputs used here the float
\* and the exact results, truncated, are the same.
StructuredRow(label, A) ==
    LET label_category == CategoryOf(label)
        b == StructuredBest(label, Candidates(label_category, A), 1, Empty, 0)
        boosted == IF b.match # Empty /\ CategoryOf(b.match) = label_category
                   THEN Min2(10000, 11 * b.score)
                   ELSE 10 * b.score
        confidence == IF boosted >= 8500 THEN "High"
                      ELSE IF boosted >= 6500 THEN "Medium" ELSE "Low"
    IN  Row(label, b.match, IF b.match # Empty THEN Get(A, b.match) ELSE 0,
            boosted \div 100, confidence, NoColumn, Title(label_category))

create_structured_mappings(template_labels, A) ==
    [k \in 1..Len(template_labels) |-> StructuredRow(template_labels[k], A)]

(***************************************************************************)
(* SmartMatcher.match_accounts, fuzzy branch                               *)
(***************************************************************************)
FuzzyRow(label, A) ==
    LET b == FuzzyBest(label, A, 1, Empty, 0)
    IN  Row(label, b.match, IF b.match # Empty THEN Get(A, b.match) ELSE 0,
            b.score, ConfLabel(b.score), NoColumn, NoColumn)

match_accounts_fuzzy(labels_, A) ==
    [k \in 1..Len(labels_) |-> FuzzyRow(labels_[k], A)]

(***************************************************************************)
(* KnowledgeExtractor                                                      *)
(***************************************************************************)
\* self.xbrl_terms: the terminology workbook is not part of the repository,
\* _load_xbrl_terminology logs the failure and leaves the dict empty
xbrl_terms == <<>>

\* common_mappings of _build_synonym_mapping, in dict order
common_mappings ==
    <<[canonical |-> <<"r", "e", "v", "e", "n", "u", "e">>,
       variations |->
          <<<<"t", "o", "t", "a", "l", " ", "r", "e", "v", "e", "n", "u", "e">>,
            <<"s", "a", "l", "e", "s">>,
            <<"t", "u", "r", "n", "o", "v", "e", "r">>,
            <<"g", "r", "o", "s", "s", " ", "r", "e", "v", "e", "n", "u", "e">>>>],
      [canonical |-> <<"n", "e", "t", " ", "i", "n", "c", "o", "m", "e">>,
       variations |->
          <<<<"n", "e", "t", " ", "p", "r", "o", "f", "i", "t">>,
            <<"n", "e", "t", " ", "e", "a", "r", "n", "i", "n", "g", "s">>,
            <<"b", "o", "t", "t", "o", "m", " ", "l", "i", "n", "e">>>>],
      [canonical |-> <<"a", "s", "s", "e", "t", "s">>,
       variations |->
          <<<<"t", "o", "t", "a", "l", " ", "a", "s", "s", "e", "t", "s">>,
            <<"g", "r", "o", "s", "s", " ", "a", "s", "s", "e", "t", "s">>>>],
      [canonical |-> <<"l", "i", "a", "b", "i", "l", "i", "t", "i", "e", "s">>,
       variations |->
          <<<<"t", "o", "t", "a", "l", " ", "l", "i", "a", "b", "i", "l", "i", "t", "i", "e", "s">>>>],
      [canonical |-> <<"e", "q", "u", "i", "t", "y">>,
       variations |->
          <<<<"s", "h", "a", "r", "e", "h", "o", "l", "d", "e", "r", "s", " ", "e", "q", "u", "i", "t", "y">>,
            <<"o", "w", "n", "e", "r", " ", "e", "q", "u", "i", "t", "y">>,
            <<"n", "e", "t", " ", "w", "o", "r", "t", "h">>>>],
      [canonical |-> <<"c", "a", "s", "h">>,
       variations |->
          <<<<"c", "a", "s", "h", " ", "a", "n", "d", " ", "e", "q", "u", "i", "v", "a", "l", "e", "n", "t", "s">>,
            <<"c", "a", "s", "h", " ", "o", "n", " ", "h", "a", "n", "d">>>>],
      [canonical |-> <<"e", "x", "p", "e", "n", "s", "e", "s">>,
       variations |->
          <<<<"t", "o", "t", "a", "l", " ", "e", "x", "p", "e", "n", "s", "e", "s">>,
            <<"o", "p", "e", "r", "a", "t", "i", "n", "g", " ", "e", "x", "p", "e", "n", "s", "e", "s">>>>],
      [canonical |-> <<"o", "p", "e", "r", "a", "t", "i", "n", "g", " ", "i", "n", "c", "o", "m", "e">>,
       variations |->
          <<<<"e", "b", "i", "t">>,
            <<"o", "p", "e", "r", "a", "t", "i", "n", "g", " ", "p", "r", "o", "f", "i", "t">>>>],
      [canonical |-> <<"g", "r", "o", "s", "s", " ", "p", "r", "o", "f", "i", "t">>,
       variations |->
          <<<<"g", "r", "o", "s", "s", " ", "m", "a", "r", "g", "i", "n">>,
            <<"g", "r", "o", "s", "s", " ", "e", "a", "r", "n", "i", "n", "g", "s">>>>]>>

RECURSIVE Flatten(_)
Flatten(ss) ==
    IF ss = <<>> THEN <<>> ELSE Head(ss) \o Flatten(Tail(ss))

\* the items _build_synonym_mapping adds from a table of variations
Variations(table) ==
    Flatten([c \in 1..Len(table) |->
                [v \in 1..Len(table[c].variations) |->
                    [term |-> lower(table[c].variations[v]),
                     canonical |-> lower(table[c].canonical)]]])

\* the items _build_synonym_mapping adds from the XBRL terms (term -> term)
XbrlItems(terms) ==
    [k \in 1..Len(terms) |-> [term |-> terms[k], canonical |-> terms[k]]]

\* _build_synonym_mapping: self.account_synonyms as its items in insertion
\* order (variation -> canonical)
account_synonyms ==
    XbrlItems(xbrl_terms) \o Variations(common_mappings)

\* the lookups of normalize_account_name in a synonym table
Lookup(synonyms, normalized) ==
    LET direct  == {k \in 1..Len(synonyms) : synonyms[k].term = normalized}
        partial == {k \in 1..Len(synonyms) :
                       \/ Contains(synonyms[k].term, normalized)
                       \/ Contains(normalized, synonyms[k].term)}
    IN  IF direct # {} THEN synonyms[CHOOSE k \in direct : TRUE].canonical
        ELSE IF partial # {}
             THEN synonyms[CHOOSE k \in partial : \A j \in partial : k <= j].canonical
             ELSE normalized

\* normalize_account_name
normalize_account_name(account_name) ==
    Lookup(account_synonyms, strip(lower(account_name)))

\* the normalized names of the inputs, computed once
NormalizedTable ==
    {[name |-> n, normalized |-> normalize_account_name(n)] :
        n \in LabelUniverse \cup AcctUniverse \cup KnowledgeLabels \cup KnowledgeAccounts}

Normalized(name) ==
    (CHOOSE t \in NormalizedTable : t.name = name).normalized

\* list(dict.fromkeys(seq)): first occurrences, in order
RECURSIVE Dedup(_, _)
Dedup(seq, seen) ==
    IF seq = <<>> THEN <<>>
    ELSE IF Head(seq) \in seen THEN Dedup(Tail(seq), seen)
    ELSE <<Head(seq)>> \o Dedup(Tail(seq), seen \cup {Head(seq)})

\* the XBRL loop of suggest_mapping_for_label: accounts that contain a term
\* of the label and are not suggested yet
RECURSIVE XbrlMatches(_, _, _, _)
XbrlMatches(normalized_label, data_accounts, t, suggestions) ==
    IF t > Len(xbrl_terms) THEN suggestions
    ELSE IF ~Contains(xbrl_terms[t], lower(normalized_label))
         THEN XbrlMatches(normalized_label, data_accounts, t + 1, suggestions)
         ELSE XbrlMatches(normalized_label, data_accounts, t + 1,
                 suggestions \o
                 SelectSeq(data_accounts,
                     LAMBDA a : Contains(xbrl_terms[t], lower(a)) /\ a \notin ToSet(suggestions)))

\* suggest_mapping_for_label
suggest_mapping_for_label(label, data_accounts) ==
    LET normalized_label == Normalized(label)
        direct == SelectSeq(data_accounts,
                     LAMBDA a :
                        \/ normalized_label = Normalized(a)
                        \/ ToSet(split(normalized_label)) \cap ToSet(split(Normalized(a))) # {})
        all == Dedup(XbrlMatches(normalized_label, data_accounts, 1, direct), {})
    IN  SubSeq(all, 1, Min2(3, Len(all)))

(***************************************************************************)
(* EnhancedAIProcessor.  mapping is a dict label -> account, kept as its   *)
(* items in insertion order; confidences are in thousandths.               *)
(***************************************************************************)
DictKeys(d) ==
    {d[k].Label : k \in 1..Len(d)}

\* d[label] = account
DictSet(d, label, account) ==
    IF label \in DictKeys(d)
    THEN [k \in 1..Len(d) |-> IF d[k].Label = label THEN [d[k] EXCEPT !.Account = account]
                              ELSE d[k]]
    ELSE Append(d, [Label |-> label, Account |-> account])

DictGet(d, label) ==
    d[CHOOSE k \in 1..Len(d) : d[k].Label = label].Account

\* the confidence _knowledge_based_mapping gives the top suggestion
KnowledgeConfidence(label, best_match) ==
    IF Normalized(label) = Normalized(best_match) THEN 950
    ELSE IF \E w \in ToSet(split(Normalized(label))) : Contains(w, lower(best_match))
         THEN 850
         ELSE 750

\* _knowledge_based_mapping: mapping and confidence_scores after the loop
RECURSIVE _knowledge_based_mapping(_, _, _, _, _)
_knowledge_based_mapping(template_labels, data_accounts, i, mapping_, scores) ==
    IF i > Len(template_labels) THEN [mapping |-> mapping_, confidence_scores |-> scores]
    ELSE LET label == template_labels[i]
             suggestions == suggest_mapping_for_label(label, data_accounts)
         IN  IF suggestions = <<>>
             THEN _knowledge_based_mapping(template_labels, data_accounts, i + 1,
                                           mapping_, scores)
             ELSE _knowledge_based_mapping(template_labels, data_accounts, i + 1,
                     DictSet(mapping_, label, suggestions[1]),
                     [l \in DOMAIN scores \cup {label} |->
                         IF l = label THEN KnowledgeConfidence(label, suggestions[1])
                         ELSE scores[l]])

\* confidence_scores.get(label, 0)
ScoreGet(scores, label) ==
    IF label \in DOMAIN scores THEN scores[label] ELSE 0

\* labels_for_llm of _llm_refinement_and_validation
labels_for_llm(template_labels, initial_mapping, scores) ==
    SelectSeq(template_labels,
        LAMBDA l : ScoreGet(scores, l) < 800 \/ l \notin DictKeys(initial_mapping))

NO_MATCH == <<"N", "O", "_", "M", "A", "T", "C", "H">>

\* the dict _call_llm_for_mapping returns: the payload without NO_MATCH
\* and without values that are no account
_call_llm_for_mapping(body, A) ==
    [l \in {x \in DOMAIN body : body[x] # NO_MATCH /\ HasKey(A, body[x])} |-> body[l]]

\* the refinement loop of _llm_refinement_and_validation over labels_for_llm
RECURSIVE Refine(_, _, _, _, _, _)
Refine(todo, i, llm_mapping, A, mapping_, scores) ==
    IF i > Len(todo) THEN [mapping |-> mapping_, confidence_scores |-> scores]
    ELSE LET label == todo[i]
         IN  IF label \in DOMAIN llm_mapping /\ HasKey(A, llm_mapping[label])
             THEN Refine(todo, i + 1, llm_mapping, A,
                     DictSet(mapping_, label, llm_mapping[label]),
                     [l \in DOMAIN scores \cup {label} |->
                         IF l = label THEN (ScoreGet(scores, label) + 850) \div 2
                         ELSE scores[l]])
             ELSE Refine(todo, i + 1, llm_mapping, A, mapping_, scores)

(***************************************************************************)
(* State                                                                   *)
(***************************************************************************)
VARIABLES
    labels,               \* template_labels of the run
    accounts,             \* excel_accounts / data_accounts of the run
    method,               \* "ai", "structured", "fuzzy" (match_accounts) or "hybrid"
    batch_size,           \* create_mappings(batch_size=...)
    double_check,         \* create_mappings(double_check=...)
    pc,                   \* where the run is
    df,                   \* the mapping frame: one row per label
    batch_i,              \* start of the next batch of pass 1 (1-based)
    uncertain,            \* row indices pass 2 still has to visit
    current_model_index,  \* IntelligentMapper.current_model_index
    model,                \* IntelligentMapper.model
    requests,             \* requests sent to the remote model so far
    used,                 \* the strategy that produced df
    mapping,              \* hybrid: label -> account
    confidence_scores,    \* hybrid: label -> confidence
    all_failed,           \* no request of the run has brought back a payload yet
    last_answer,          \* what the latest second-pass request brought back
    cache_dir,            \* the files of the cache directory shared by the sessions
    session_state,        \* st.session_state of each browser session
    hit,                  \* the session's Extract & Map found a mapping stored
                          \* since the last Clear Cache
    extractor,            \* the ingestion function at work
    rows,                 \* the rows (lines) of the data file it has still to read
    data_map,             \* the account map it has built so far
    callee,               \* the function a caller has invoked on its own
    args,                 \* the arguments of that call
    result,               \* what the call has returned
    knowledge_base,       \* the KnowledgeExtractor instance
    validator             \* the FinancialValidator instance

vars ==
    <<labels, accounts, method, batch_size, double_check, pc, df, batch_i, uncertain,
      current_model_index, model, requests, used, mapping, confidence_scores, all_failed,
      last_answer, cache_dir, session_state, hit, extractor, rows, data_map,
      callee, args, result, knowledge_base, validator>>

inputs ==
    <<labels, accounts, method, batch_size, double_check>>

\* what the application keeps around a run of the matcher
app ==
    <<cache_dir, session_state, hit>>

\* what the ingestion of a data file works on
ingest ==
    <<extractor, rows, data_map>>

\* what a call of a single function works on
invocation ==
    <<callee, args, result, knowledge_base, validator>>

\* match_accounts calls create_mappings with batch_size=20; a direct caller
\* may pass any size
BatchSizes == {1, 20}

Init ==
    /\ labels \in LabelLists
    /\ accounts \in AccountMaps
    /\ method \in {"ai", "structured", "fuzzy", "hybrid"}
    /\ batch_size \in IF method = "ai" THEN BatchSizes ELSE {20}
    /\ double_check \in IF method = "ai" THEN BOOLEAN ELSE {TRUE}
    /\ pc = "start"
    /\ df = <<>>
    /\ batch_i = 1
    /\ uncertain = <<>>
    /\ current_model_index = 0
    /\ model = models[1]
    /\ requests = 0
    /\ used = "none"
    /\ mapping = <<>>
    /\ confidence_scores = <<>>
    /\ all_failed = TRUE
    /\ last_answer = [kind |-> "none", body |-> NoFields]
    /\ cache_dir = {}
    /\ session_state = <<>>
    /\ hit = <<>>
    /\ extractor = "none"
    /\ rows = <<>>
    /\ data_map = <<>>
    /\ callee = "none"
    /\ args = <<>>
    /\ result = <<>>
    /\ knowledge_base = <<>>
    /\ validator = <<>>

(***************************************************************************)
(* IntelligentMapper.create_mappings                                       *)
(***************************************************************************)
\* payloads of a first-pass request for a batch
BatchReplies(batch, A) ==
    {[kind |-> "garbage", body |-> <<>>], [kind |-> "notdict", body |-> <<>>]}
    \cup {[kind |-> "json", body |-> f] :
            f \in UNION {[D -> Proposals(A)] : D \in SUBSET ToSet(batch)}}

\* the payloads the remote model sends while browser sessions interleave:
\* unusable text, or the first account for every label; a second-pass request
\* fails or brings back an object without matched_account
SessionReplies(batch, A) ==
    {[kind |-> "garbage", body |-> <<>>]}
    \cup (IF A = <<>> THEN {}
          ELSE {[kind |-> "json", body |-> [l \in ToSet(batch) |-> Prop(Keys(A)[1], 95)]]})

SessionAnswers ==
    {[kind |-> "fail", body |-> NoFields],
     [kind |-> "json", body |-> [Prop(Empty, 95) EXCEPT !.has_account = FALSE]]}

\* create_mappings is entered: all_mappings = []
CreateMappings ==
    /\ pc = "start"
    /\ method = "ai"
    /\ pc' = IF labels = <<>> THEN "validate" ELSE "pass1"
    /\ used' = "ai"
    /\ UNCHANGED <<inputs, app, ingest, invocation, df, batch_i, uncertain, current_model_index, model, requests,
                   mapping, confidence_scores, all_failed, last_answer>>

\* one iteration of the PASS 1 loop: _map_batch on labels[batch_i : batch_i + batch_size]
MapBatch ==
    /\ pc = "pass1"
    /\ LET batch == SubSeq(labels, batch_i, Min2(Len(labels), batch_i + batch_size - 1))
       IN  \E fails \in 0..(NModels - current_model_index) :
           \E reply \in IF session_state = <<>> THEN BatchReplies(batch, accounts)
                         ELSE SessionReplies(batch, accounts) :
              LET call == _call_ai(current_model_index, model, 0, fails)
              IN  /\ df' = df \o _map_batch(batch, accounts, call, reply)
                  /\ current_model_index' = call.index
                  /\ model' = call.model
                  /\ requests' = requests + call.sent
                  /\ all_failed' = (all_failed /\ (~call.ok \/ reply.kind = "garbage"))
    /\ batch_i' = batch_i + batch_size
    /\ pc' = IF batch_i + batch_size > Len(labels) THEN "validate" ELSE "pass1"
    /\ UNCHANGED <<inputs, app, ingest, invocation, uncertain, used, mapping, confidence_scores, last_answer>>

\* df = pd.DataFrame(all_mappings); _validate_and_enhance(df); then the
\* selection of the uncertain rows when double_check is set.  A frame built
\* from no rows has no columns: df["Matched Account"] raises KeyError.
ValidateAndEnhance ==
    /\ pc = "validate"
    /\ IF df = <<>>
       THEN /\ pc' = "cm_raised"
            /\ UNCHANGED <<df, uncertain>>
       ELSE LET v == _validate_and_enhance(df)
                u == IF double_check THEN Uncertain(v, 1) ELSE <<>>
            IN  /\ df' = v
                /\ uncertain' = u
                /\ pc' = IF u = <<>> THEN "cm_returned" ELSE "pass2"
    /\ UNCHANGED <<inputs, app, ingest, invocation, batch_i, current_model_index, model, requests, used, mapping,
                   confidence_scores, all_failed, last_answer>>

\* answers to a second-pass request
Answers(A) ==
    {[kind |-> "fail", body |-> NoFields]}
    \cup {[kind |-> "json", body |-> p] : p \in Proposals(A)}

\* one iteration of the loop of _double_check_uncertain
DoubleCheckRow ==
    /\ pc = "pass2"
    /\ \E answer \in IF session_state = <<>> THEN Answers(accounts) ELSE SessionAnswers :
          LET idx == Head(uncertain)
              out == RevalidateRow(df[idx], _focused_revalidation(answer, accounts))
          IN  /\ df' = [df EXCEPT ![idx] = out.row]
              /\ pc' = IF out.raised THEN "cm_raised"
                       ELSE IF Tail(uncertain) = <<>> THEN "cm_returned" ELSE "pass2"
              /\ all_failed' = (all_failed /\ answer.kind = "fail")
              /\ last_answer' = answer
    /\ uncertain' = Tail(uncertain)
    /\ requests' = requests + 1
    /\ UNCHANGED <<inputs, app, ingest, invocation, batch_i, current_model_index, model, used, mapping, confidence_scores>>

(***************************************************************************)
(* SmartMatcher.match_accounts                                             *)
(***************************************************************************)
\* method == "ai": create_mappings returned, its frame is returned
MatchAccountsReturn ==
    /\ pc = "cm_returned"
    /\ batch_size = 20
    /\ pc' = "done"
    /\ UNCHANGED <<inputs, app, ingest, invocation, df, batch_i, uncertain, current_model_index, model, requests, used,
                   mapping, confidence_scores, all_failed, last_answer>>

\* method == "ai": create_mappings raised, fall back to the structured method
MatchAccountsFallback ==
    /\ pc = "cm_raised"
    /\ batch_size = 20
    /\ df' = create_structured_mappings(labels, accounts)
    /\ used' = "structured"
    /\ pc' = "done"
    /\ UNCHANGED <<inputs, app, ingest, invocation, batch_i, uncertain, current_model_index, model, requests, mapping,
                   confidence_scores, all_failed, last_answer>>

MatchAccountsStructured ==
    /\ pc = "start"
    /\ method = "structured"
    /\ df' = create_structured_mappings(labels, accounts)
    /\ used' = "structured"
    /\ pc' = "done"
    /\ UNCHANGED <<inputs, app, ingest, invocation, batch_i, uncertain, current_model_index, model, requests, mapping,
                   confidence_scores, all_failed, last_answer>>

MatchAccountsFuzzy ==
    /\ pc = "start"
    /\ method = "fuzzy"
    /\ df' = match_accounts_fuzzy(labels, accounts)
    /\ used' = "fuzzy"
    /\ pc' = "done"
    /\ UNCHANGED <<inputs, app, ingest, invocation, batch_i, uncertain, current_model_index, model, requests, mapping,
                   confidence_scores, all_failed, last_answer>>

(***************************************************************************)
(* EnhancedAIProcessor.create_enhanced_semantic_mapping                    *)
(***************************************************************************)
\* input validation and step 1, _knowledge_based_mapping
KnowledgeMapping ==
    /\ pc = "start"
    /\ method = "hybrid"
    /\ used' = "hybrid"
    /\ IF accounts = <<>> \/ labels = <<>>
       THEN /\ pc' = "raised"
            /\ UNCHANGED <<mapping, confidence_scores>>
       ELSE LET k == _knowledge_based_mapping(labels, Keys(accounts), 1, <<>>, <<>>)
            IN  /\ mapping' = k.mapping
                /\ confidence_scores' = k.confidence_scores
                /\ pc' = "refine"
    /\ UNCHANGED <<inputs, app, ingest, invocation, df, batch_i, uncertain, current_model_index, model, requests,
                   all_failed, last_answer>>

\* payloads of the hybrid strategy's single request: label -> account name
LlmReplies(todo, A) ==
    {[kind |-> "fail", body |-> <<>>]}
    \cup {[kind |-> "json", body |-> f] :
            f \in UNION {[D -> ToSet(Keys(A)) \cup {NO_MATCH, Xyz}] :
                            D \in SUBSET ToSet(todo)}}

\* steps 2 to 4: _llm_refinement_and_validation (one request when a label
\* needs it; a failure keeps the knowledge mapping), then the formula check
\* and the benchmark step, which copy the mapping
LlmRefinement ==
    /\ pc = "refine"
    /\ LET todo == labels_for_llm(labels, mapping, confidence_scores)
       IN  IF todo = <<>>
           THEN UNCHANGED <<mapping, confidence_scores, requests, all_failed>>
           ELSE \E reply \in LlmReplies(todo, accounts) :
                  /\ requests' = requests + 1
                  /\ all_failed' = (all_failed /\ reply.kind = "fail")
                  /\ IF reply.kind = "fail"
                     THEN UNCHANGED <<mapping, confidence_scores>>
                     ELSE LET r == Refine(todo, 1,
                                      _call_llm_for_mapping(reply.body, accounts),
                                      accounts, mapping, confidence_scores)
                          IN  /\ mapping' = r.mapping
                              /\ confidence_scores' = r.confidence_scores
    /\ pc' = "done"
    /\ UNCHANGED <<inputs, app, ingest, invocation, df, batch_i, uncertain, current_model_index, model, used, last_answer>>

Next ==
    \/ CreateMappings
    \/ MapBatch
    \/ ValidateAndEnhance
    \/ DoubleCheckRow
    \/ MatchAccountsReturn
    \/ MatchAccountsFallback
    \/ MatchAccountsStructured
    \/ MatchAccountsFuzzy
    \/ KnowledgeMapping
    \/ LlmRefinement

Spec ==
    Init /\ [][Next]_vars

(***************************************************************************)
(* main() of app_v2.py: Extract & Map with the mapping cache, Save         *)
(* Changes and Clear Cache.  Every browser session runs the script in a    *)
(* thread of its own; the cache directory is shared.  A call of            *)
(* match_accounts touches nothing but its own locals, so the calls of the  *)
(* sessions are taken one after the other: the call in progress owns the   *)
(* variables of a run, and pc = "app" says that none is in progress.       *)
(***************************************************************************)
Sessions == {1, 2}

\* the uploaded files, as bytes
TemplateFiles == {<<1>>, <<1, 2>>}

DataFiles == {<<2, 3>>, <<3>>}

\* what a session has uploaded and selected: template, data, mapping method
Uploads ==
    {<<<<1>>, <<2, 3>>, "ai">>, <<<<1, 2>>, <<3>>, "ai">>,
     <<<<1>>, <<2, 3>>, "structured">>, <<<<1>>, <<2, 3>>, "fuzzy">>}

\* PDFExtractor.extract_labels on the uploaded templates
extract_labels(pdf_bytes) ==
    IF pdf_bytes = <<1>> THEN <<CashUpper>> ELSE <<CashUpper, Loan>>

\* ExcelExtractor.extract_all_accounts on the uploaded workbooks
extract_all_accounts(excel_bytes) ==
    LET ks == IF excel_bytes = <<3>> THEN <<Cash>> ELSE <<CashAtBank, Cash>>
    IN  [n \in 1..Len(ks) |-> [name |-> ks[n], value |-> ValueOf(ks[n])]]

\* method.encode(): the UTF-8 bytes of the method name
encode(m) ==
    IF m = "ai" THEN <<97, 105>>
    ELSE IF m = "structured" THEN <<115, 116, 114, 117, 99, 116, 117, 114, 101, 100>>
    ELSE <<102, 117, 122, 122, 121>>

\* get_cache_key: the digest of the concatenation; md5 is taken as free of
\* collisions, so the digest stands for the bytes it was computed from
get_cache_key(template_bytes, data_bytes, m) ==
    template_bytes \o data_bytes \o encode(m)

\* the variables of a single run of the matcher
run ==
    <<inputs, pc, df, batch_i, uncertain, current_model_index, model, requests, used, mapping,
      confidence_scores, all_failed, last_answer>>

\* cache_key of the session's uploads and method
CacheKey(s) ==
    get_cache_key(session_state[s].template_bytes, session_state[s].data_bytes,
                  session_state[s].mapping_method)

\* the cache files named after key: none or one
Files(key) ==
    {f \in cache_dir : f.key = key}

\* a cell edited in st.data_editor: the first row is unmapped by hand
Edited(frame) ==
    IF frame = <<>> THEN frame ELSE [frame EXCEPT ![1].Account = Empty]

AppInit ==
    /\ labels = <<>>
    /\ accounts = <<>>
    /\ method = "ai"
    /\ batch_size = 20
    /\ double_check = TRUE
    /\ pc = "app"
    /\ df = <<>>
    /\ batch_i = 1
    /\ uncertain = <<>>
    /\ current_model_index = 0
    /\ model = models[1]
    /\ requests = 0
    /\ used = "none"
    /\ mapping = <<>>
    /\ confidence_scores = <<>>
    /\ all_failed = TRUE
    /\ last_answer = [kind |-> "none", body |-> NoFields]
    /\ cache_dir = {}
    /\ session_state \in [Sessions -> {[template_bytes |-> u[1], data_bytes |-> u[2],
                                        mapping_method |-> u[3], step |-> 1,
                                        mapping_df |-> <<>>, at |-> "idle"] :
                                           u \in Uploads}]
    /\ hit = [s \in Sessions |-> FALSE]
    /\ extractor = "none"
    /\ rows = <<>>
    /\ data_map = <<>>
    /\ callee = "none"
    /\ args = <<>>
    /\ result = <<>>
    /\ knowledge_base = <<>>
    /\ validator = <<>>

\* the button Extract & Map Data: extraction, cache key, cache_file.exists()
ExtractAndMap(s) ==
    /\ session_state[s].at \in {"idle", "error"}
    /\ session_state' = [session_state EXCEPT
                            ![s].at = IF Files(CacheKey(s)) # {} THEN "load" ELSE "match"]
    /\ hit' = [hit EXCEPT ![s] = \E f \in Files(CacheKey(s)) : f.stored]
    /\ UNCHANGED <<run, ingest, invocation, cache_dir>>

\* open(cache_file, "rb") and pickle.load: FileNotFoundError when the file
\* is gone, EOFError or UnpicklingError when it holds no complete pickle
LoadCache(s) ==
    /\ session_state[s].at = "load"
    /\ IF \E f \in Files(CacheKey(s)) : f.complete
       THEN LET f == CHOOSE f \in Files(CacheKey(s)) : TRUE
            IN  session_state' = [session_state EXCEPT ![s].mapping_df = f.value,
                                                       ![s].step = 2,
                                                       ![s].at = "idle"]
       ELSE session_state' = [session_state EXCEPT ![s].at = "error"]
    /\ UNCHANGED <<run, ingest, invocation, cache_dir, hit>>

\* no cache found: SmartMatcher.match_accounts is called on the extracted data
RunMatcher(s) ==
    /\ session_state[s].at = "match"
    /\ pc = "app"
    /\ labels' = extract_labels(session_state[s].template_bytes)
    /\ accounts' = extract_all_accounts(session_state[s].data_bytes)
    /\ method' = session_state[s].mapping_method
    /\ pc' = "start"
    /\ session_state' = [session_state EXCEPT ![s].at = "matching"]
    /\ UNCHANGED <<ingest, invocation, batch_size, double_check, df, batch_i, uncertain, current_model_index, model,
                   requests, used, mapping, confidence_scores, all_failed, last_answer,
                   cache_dir, hit>>

\* match_accounts has returned: its frame becomes session_state.mapping_df
MatcherReturns(s) ==
    /\ session_state[s].at = "matching"
    /\ pc = "done"
    /\ session_state' = [session_state EXCEPT ![s].mapping_df = df, ![s].at = "open"]
    /\ labels' = <<>>
    /\ accounts' = <<>>
    /\ method' = "ai"
    /\ pc' = "app"
    /\ df' = <<>>
    /\ batch_i' = 1
    /\ uncertain' = <<>>
    /\ current_model_index' = 0
    /\ model' = models[1]
    /\ requests' = 0
    /\ used' = "none"
    /\ all_failed' = TRUE
    /\ last_answer' = [kind |-> "none", body |-> NoFields]
    /\ UNCHANGED <<ingest, invocation, batch_size, double_check, mapping, confidence_scores, cache_dir, hit>>

\* open(cache_file, "wb"): the file is created, or truncated in place
OpenCacheFile(s) ==
    /\ session_state[s].at = "open"
    /\ LET old == Files(CacheKey(s))
       IN  cache_dir' = (cache_dir \ old) \cup
               {[key |-> CacheKey(s), complete |-> FALSE, value |-> <<>>,
                 stored |-> \E f \in old : f.stored,
                 writers |-> {s} \cup UNION {f.writers : f \in old}]}
    /\ session_state' = [session_state EXCEPT ![s].at = "dump"]
    /\ UNCHANGED <<run, ingest, invocation, hit>>

\* pickle.dump and close.  The bytes go to the file the session opened: a
\* file removed in between stays removed; where another session still writes
\* a different frame to the same file the chunks of the two may interleave
DumpCache(s) ==
    /\ session_state[s].at = "dump"
    /\ LET mine == {f \in Files(CacheKey(s)) : s \in f.writers}
           torn == \E f \in mine : \E o \in f.writers \ {s} :
                       session_state[o].mapping_df # session_state[s].mapping_df
       IN  \E whole \in IF torn THEN BOOLEAN ELSE {TRUE} :
              cache_dir' = (cache_dir \ mine) \cup
                  {[f EXCEPT !.complete = whole,
                             !.value = IF whole THEN session_state[s].mapping_df ELSE <<>>,
                             !.stored = f.stored \/ whole,
                             !.writers = f.writers \ {s}] : f \in mine}
    /\ session_state' = [session_state EXCEPT ![s].step = 2, ![s].at = "idle"]
    /\ UNCHANGED <<run, ingest, invocation, hit>>

\* the button Save Changes: the edited frame replaces mapping_df
SaveChanges(s) ==
    /\ session_state[s].at = "idle"
    /\ session_state[s].step >= 2
    /\ session_state' = [session_state EXCEPT
                            ![s].mapping_df = Edited(session_state[s].mapping_df),
                            ![s].step = 3]
    /\ UNCHANGED <<run, ingest, invocation, cache_dir, hit>>

\* the button Clear Cache: shutil.rmtree(cache_dir) and mkdir
ClearCache(s) ==
    /\ session_state[s].at = "idle"
    /\ session_state[s].step >= 2
    /\ cache_dir' = {}
    /\ hit' = [o \in Sessions |-> FALSE]
    /\ UNCHANGED <<run, ingest, invocation, session_state>>

AppNext ==
    \/ \E s \in Sessions : ExtractAndMap(s)
    \/ \E s \in Sessions : LoadCache(s)
    \/ \E s \in Sessions : RunMatcher(s)
    \/ CreateMappings
    \/ MapBatch
    \/ ValidateAndEnhance
    \/ DoubleCheckRow
    \/ MatchAccountsReturn
    \/ MatchAccountsFallback
    \/ MatchAccountsStructured
    \/ MatchAccountsFuzzy
    \/ \E s \in Sessions : MatcherReturns(s)
    \/ \E s \in Sessions : OpenCacheFile(s)
    \/ \E s \in Sessions : DumpCache(s)
    \/ \E s \in Sessions : SaveChanges(s)
    \/ \E s \in Sessions : ClearCache(s)

AppSpec ==
    AppInit /\ [][AppNext]_vars

(***************************************************************************)
(* Ingestion of the data file: DataHandler.extract_from_excel,             *)
(* DataHandler.extract_from_pdf and ExcelExtractor.extract_all_accounts.   *)
(* A row is an account name and the number float() makes of its value      *)
(* cell; each function reads the rows in order into a dict.                *)
(***************************************************************************)
MaxRows == 3

RowUniverse ==
    {[name |-> n, value |-> v] : n \in {Cash, CashAtBank}, v \in {0, 120}}

\* data_map[name] = value: a new key goes to the end, a known key keeps its place
DictPut(A, name, value) ==
    IF HasKey(A, name)
    THEN [k \in 1..Len(A) |-> IF A[k].name = name THEN [name |-> name, value |-> value]
                                                  ELSE A[k]]
    ELSE Append(A, [name |-> name, value |-> value])

IngestInit ==
    /\ labels = <<>>
    /\ accounts = <<>>
    /\ method = "ai"
    /\ batch_size = 20
    /\ double_check = TRUE
    /\ pc = "ingest"
    /\ df = <<>>
    /\ batch_i = 1
    /\ uncertain = <<>>
    /\ current_model_index = 0
    /\ model = models[1]
    /\ requests = 0
    /\ used = "none"
    /\ mapping = <<>>
    /\ confidence_scores = <<>>
    /\ all_failed = TRUE
    /\ last_answer = [kind |-> "none", body |-> NoFields]
    /\ cache_dir = {}
    /\ session_state = <<>>
    /\ hit = <<>>
    /\ extractor \in {"extract_from_excel", "extract_from_pdf", "extract_all_accounts"}
    /\ rows \in SeqsUpTo(RowUniverse, MaxRows)
    /\ data_map = <<>>
    /\ callee = "none"
    /\ args = <<>>
    /\ result = <<>>
    /\ knowledge_base = <<>>
    /\ validator = <<>>

\* one row of DataHandler.extract_from_excel, in the pandas loop as in the
\* openpyxl loop: a zero value is skipped
ExtractFromExcelRow ==
    /\ pc = "ingest"
    /\ extractor = "extract_from_excel"
    /\ rows # <<>>
    /\ data_map' = IF Head(rows).value # 0
                   THEN DictPut(data_map, strip(Head(rows).name), Head(rows).value)
                   ELSE data_map
    /\ rows' = Tail(rows)
    /\ UNCHANGED <<run, app, invocation, extractor>>

\* one line of DataHandler.extract_from_pdf: the last word is the value
ExtractFromPdfLine ==
    /\ pc = "ingest"
    /\ extractor = "extract_from_pdf"
    /\ rows # <<>>
    /\ data_map' = IF strip(Head(rows).name) # Empty
                   THEN DictPut(data_map, strip(Head(rows).name), Head(rows).value)
                   ELSE data_map
    /\ rows' = Tail(rows)
    /\ UNCHANGED <<run, app, invocation, extractor>>

\* one row of ExcelExtractor.extract_all_accounts: non-zero values are stored
ExtractAllAccountsRow ==
    /\ pc = "ingest"
    /\ extractor = "extract_all_accounts"
    /\ rows # <<>>
    /\ data_map' = IF Head(rows).value # 0
                   THEN DictPut(data_map, strip(Head(rows).name), Head(rows).value)
                   ELSE data_map
    /\ rows' = Tail(rows)
    /\ UNCHANGED <<run, app, invocation, extractor>>

\* the rows are read: the map is returned
IngestReturn ==
    /\ pc = "ingest"
    /\ rows = <<>>
    /\ pc' = "ingested"
    /\ UNCHANGED <<inputs, df, batch_i, uncertain, current_model_index, model, requests, used,
                   mapping, confidence_scores, all_failed, last_answer, app, ingest, invocation>>

IngestNext ==
    \/ ExtractFromExcelRow
    \/ ExtractFromPdfLine
    \/ ExtractAllAccountsRow
    \/ IngestReturn

IngestSpec ==
    IngestInit /\ [][IngestNext]_vars

(***************************************************************************)
(* SmartMatcher.match_accounts(method="structured") alone, on the inputs   *)
(* of two categories                                                       *)
(***************************************************************************)
StructInit ==
    /\ labels \in SeqsUpTo(StructLabelUniverse, MaxLabels)
    /\ accounts \in {[n \in 1..Len(ks) |-> [name |-> ks[n], value |-> ValueOf(ks[n])]] :
                        ks \in {q \in SeqsUpTo(StructAcctUniverse, MaxStructAccounts) :
                                   \A m, n \in 1..Len(q) : m # n => q[m] # q[n]}}
    /\ method = "structured"
    /\ batch_size = 20
    /\ double_check = TRUE
    /\ pc = "start"
    /\ df = <<>>
    /\ batch_i = 1
    /\ uncertain = <<>>
    /\ current_model_index = 0
    /\ model = models[1]
    /\ requests = 0
    /\ used = "none"
    /\ mapping = <<>>
    /\ confidence_scores = <<>>
    /\ all_failed = TRUE
    /\ last_answer = [kind |-> "none", body |-> NoFields]
    /\ cache_dir = {}
    /\ session_state = <<>>
    /\ hit = <<>>
    /\ extractor = "none"
    /\ rows = <<>>
    /\ data_map = <<>>
    /\ callee = "none"
    /\ args = <<>>
    /\ result = <<>>
    /\ knowledge_base = <<>>
    /\ validator = <<>>

StructNext ==
    MatchAccountsStructured

StructSpec ==
    StructInit /\ [][StructNext]_vars

(***************************************************************************)
(* Calls of single functions.  The matcher, the application and the        *)
(* ingestion are at rest.                                                  *)
(***************************************************************************)
AtRest ==
    /\ labels = <<>>
    /\ accounts = <<>>
    /\ method = "none"
    /\ batch_size = 20
    /\ double_check = TRUE
    /\ df = <<>>
    /\ batch_i = 1
    /\ uncertain = <<>>
    /\ current_model_index = 0
    /\ model = models[1]
    /\ requests = 0
    /\ used = "none"
    /\ mapping = <<>>
    /\ confidence_scores = <<>>
    /\ all_failed = TRUE
    /\ last_answer = [kind |-> "none", body |-> NoFields]
    /\ cache_dir = {}
    /\ session_state = <<>>
    /\ hit = <<>>
    /\ extractor = "none"
    /\ rows = <<>>
    /\ data_map = <<>>

\* the variables a call of a single function leaves alone
at_rest ==
    <<inputs, df, batch_i, uncertain, current_model_index, model, requests, used, mapping,
      confidence_scores, all_failed, last_answer, app, ingest>>

\* StructuredMapper.categorize_account on names of one or two words
CategoryNames ==
    LET words == {Sales, <<"I", "n", "t", "e", "r", "e", "s", "t">>, CashUpper, Loan,
                  Payable, <<"S", "h", "a", "r", "e">>, Xyz}
    IN  {Empty} \cup words \cup {w1 \o <<" ">> \o w2 : w1 \in words, w2 \in words}

CategorizeInit ==
    /\ AtRest
    /\ pc = "call"
    /\ callee = "categorize_account"
    /\ args \in CategoryNames
    /\ result = <<>>
    /\ knowledge_base = <<>>
    /\ validator = <<>>

CategorizeAccount ==
    /\ pc = "call"
    /\ callee = "categorize_account"
    /\ result' = categorize_account(args)
    /\ pc' = "returned"
    /\ UNCHANGED <<at_rest, callee, args, knowledge_base, validator>>

CategorizeSpec ==
    CategorizeInit /\ [][CategorizeAccount]_vars

\* KnowledgeExtractor: construction, then one call of normalize_account_name
\* or of suggest_mapping_for_label.  The workbooks of the knowledge base are
\* not part of the repository: each loader logs its failure and
\* _build_synonym_mapping works on what is left.
KnowledgeInit ==
    /\ AtRest
    /\ pc = "construct"
    /\ \/ /\ callee = "normalize_account_name"
          /\ args \in {<<n>> : n \in KnowledgeLabels \cup KnowledgeAccounts}
       \/ /\ callee = "suggest_mapping_for_label"
          /\ args \in {<<l, c>> :
                          l \in KnowledgeLabels,
                          c \in {q \in SeqsUpTo(KnowledgeAccounts, MaxCandidates) :
                                    \A m, n \in 1..Len(q) : m # n => q[m] # q[n]}}
    /\ result = <<>>
    /\ knowledge_base = [xbrl_terms |-> <<>>, account_synonyms |-> <<>>]
    /\ validator = <<>>

\* KnowledgeExtractor.__init__ with _load_knowledge_bases
LoadKnowledgeBases ==
    /\ pc = "construct"
    /\ knowledge_base' = [xbrl_terms |-> xbrl_terms, account_synonyms |-> account_synonyms]
    /\ pc' = "call"
    /\ UNCHANGED <<at_rest, callee, args, result, validator>>

NormalizeAccountName ==
    /\ pc = "call"
    /\ callee = "normalize_account_name"
    /\ result' = Lookup(knowledge_base.account_synonyms, strip(lower(args[1])))
    /\ pc' = "returned"
    /\ UNCHANGED <<at_rest, callee, args, knowledge_base, validator>>

SuggestMappingForLabel ==
    /\ pc = "call"
    /\ callee = "suggest_mapping_for_label"
    /\ result' = suggest_mapping_for_label(args[1], args[2])
    /\ pc' = "returned"
    /\ UNCHANGED <<at_rest, callee, args, knowledge_base, validator>>

KnowledgeNext ==
    \/ LoadKnowledgeBases
    \/ NormalizeAccountName
    \/ SuggestMappingForLabel

KnowledgeSpec ==
    KnowledgeInit /\ [][KnowledgeNext]_vars

(***************************************************************************)
(* FinancialValidator.  A data key stands for the account name whose       *)
(* lowercased, underscored form it is ('net_income' for 'Net Income'); a   *)
(* rule is kept by its name, its formula as the branches of                *)
(* _execute_validation_rule take it apart.  An optional number is <<>>     *)
(* (None) or <<v>>.                                                        *)
(***************************************************************************)
MaxCalls == 3

\* _initialize_validation_rules: the rule lists by statement type
validation_rules ==
    [balance_sheet    |-> <<"Assets_Equity_Liabilities_Check", "NonNegative_Assets">>,
     income_statement |-> <<"Net_Income_Calculation", "Gross_Profit_Logic">>,
     cash_flow        |-> <<"Cash_Change_Reconciliation">>,
     ratios           |-> <<"Current_Ratio_Reasonable", "Profit_Margin_Positive">>]

\* the formulas of the rules as _execute_validation_rule reads them.
\* 'total_assets >= 0' goes to the single '=' branch with the left side
\* 'total_assets >', which is no number; '1.0 <= current_ratio <= 3.0' goes
\* there too and its split('=') has three parts, which raises on unpacking.
rule_formulas ==
    [Assets_Equity_Liabilities_Check |->
        [branch |-> "eq", lhs |-> [op |-> "var", of |-> <<"total_assets">>],
         rhs |-> [op |-> "sum", of |-> <<"total_liabilities", "total_equity">>],
         tolerance |-> 1],
     NonNegative_Assets |->
        [branch |-> "eq", lhs |-> [op |-> "junk", of |-> <<"total_assets">>],
         rhs |-> [op |-> "const", of |-> <<0>>], tolerance |-> 0],
     Net_Income_Calculation |->
        [branch |-> "eq", lhs |-> [op |-> "diff", of |-> <<"revenue", "expenses">>],
         rhs |-> [op |-> "var", of |-> <<"net_income">>], tolerance |-> 2],
     Gross_Profit_Logic |->
        [branch |-> "gt", lhs |-> [op |-> "var", of |-> <<"revenue">>],
         rhs |-> [op |-> "var", of |-> <<"cost_of_goods_sold">>], tolerance |-> 1],
     Cash_Change_Reconciliation |->
        [branch |-> "eq", lhs |-> [op |-> "sum", of |-> <<"cash_beginning", "cash_flow_change">>],
         rhs |-> [op |-> "var", of |-> <<"cash_ending">>], tolerance |-> 1],
     Current_Ratio_Reasonable |->
        [branch |-> "unpack", lhs |-> [op |-> "junk", of |-> <<>>],
         rhs |-> [op |-> "junk", of |-> <<>>], tolerance |-> 10],
     Profit_Margin_Positive |->
        [branch |-> "gt", lhs |-> [op |-> "var", of |-> <<"profit_margin">>],
         rhs |-> [op |-> "const", of |-> <<0>>], tolerance |-> 0]]

\* _detect_statement_type: the keyword tests on the joined lowercased keys
_detect_statement_type(data) ==
    IF "total_assets" \in DOMAIN data THEN "balance_sheet"
    ELSE IF DOMAIN data \cap {"revenue", "net_income", "expenses"} # {}
         THEN "income_statement"
         ELSE "general"

\* _evaluate_expression: every variable replaced by its value, then the sum,
\* the difference or the number; None when something is left that is no
\* number
_evaluate_expression(expression, data) ==
    LET known == \A k \in 1..Len(expression.of) : expression.of[k] \in DOMAIN data
        v(k) == data[expression.of[k]]
    IN  CASE expression.op = "const" -> expression.of
          [] expression.op = "junk"  -> <<>>
          [] expression.op = "var"   -> IF known THEN <<v(1)>> ELSE <<>>
          [] expression.op = "sum"   -> IF known THEN <<v(1) + v(2)>> ELSE <<>>
          [] expression.op = "diff"  -> IF known THEN <<v(1) - v(2)>> ELSE <<>>

\* _execute_validation_rule; the tolerance is in percent
_execute_validation_rule(rule, data) ==
    LET f == rule_formulas[rule]
        lhs_value == _evaluate_expression(f.lhs, data)
        rhs_value == _evaluate_expression(f.rhs, data)
        Abs(n) == IF n < 0 THEN -n ELSE n
        Result(ok, msg, sev, exp, act) ==
            [formula_name |-> rule, is_valid |-> ok, message |-> msg, severity |-> sev,
             expected_value |-> exp, actual_value |-> act]
    IN  IF f.branch = "unpack"
        THEN Result(FALSE, "Validation error", "error", <<>>, <<>>)
        ELSE IF lhs_value = <<>> \/ rhs_value = <<>>
        THEN Result(FALSE, "Cannot evaluate: missing data", "warning", <<>>, <<>>)
        ELSE LET l == lhs_value[1]
                 r == rhs_value[1]
                 is_valid ==
                     IF f.branch = "gt" THEN l > r
                     ELSE IF f.tolerance > 0
                          THEN 100 * Abs(l - r)
                                   <= f.tolerance * Max2(Max2(Abs(l), Abs(r)), 1)
                          ELSE l = r
             IN  Result(is_valid, IF is_valid THEN "Check passed" ELSE "Check failed",
                        IF is_valid THEN "info" ELSE "error", rhs_value, lhs_value)

\* the loop of validate_financial_statement over the rules and
\* _calculate_financial_ratios: the results and summary_stats.  A ratio is
\* kept as the pair it is the quotient of (times 100).
validate_financial_statement(rules, data) ==
    LET validation_results == [k \in 1..Len(rules) |-> _execute_validation_rule(rules[k], data)]
        Count(P(_)) == Cardinality({k \in 1..Len(rules) : P(validation_results[k])})
        Ratio(num, den) ==
            IF {num, den} \subseteq DOMAIN data /\ data[num] # 0 /\ data[den] > 0
            THEN <<data[num], data[den]>> ELSE <<>>
    IN  [validation_results |-> validation_results,
         summary_stats |->
            [total_checks  |-> Len(rules),
             passed_checks |-> Count(LAMBDA x : x.is_valid),
             failed_checks |-> Count(LAMBDA x : ~x.is_valid),
             warnings      |-> Count(LAMBDA x : ~x.is_valid /\ x.severity # "error"),
             error_count   |-> Count(LAMBDA x : ~x.is_valid /\ x.severity = "error"),
             calculated_ratios |->
                [net_profit_margin |-> Ratio("net_income", "revenue"),
                 return_on_assets  |-> Ratio("net_income", "total_assets")]]]

\* a validator after construction and the data its caller validates with it
ValidatorInit ==
    /\ AtRest
    /\ pc = "call"
    /\ callee = "validate_financial_statement"
    /\ args \in {<<d>> : d \in UNION {[K -> {40, 60, 100}] :
                     K \in SUBSET {"revenue", "expenses", "net_income",
                                   "cost_of_goods_sold", "total_assets"}}}
    /\ result = <<>>
    /\ knowledge_base = [xbrl_terms |-> xbrl_terms, account_synonyms |-> account_synonyms]
    /\ validator = [validation_rules |-> validation_rules]

\* validator.validate_financial_statement(data), statement_type "auto":
\* rules is the stored list itself, rules.extend(...) lengthens it in place
ValidateFinancialStatement ==
    /\ pc = "call"
    /\ callee = "validate_financial_statement"
    /\ Len(result) < MaxCalls
    /\ LET data == args[1]
           statement_type == _detect_statement_type(data)
           stored == IF statement_type \in DOMAIN validator.validation_rules
                     THEN validator.validation_rules[statement_type] ELSE <<>>
           rules == IF statement_type = "income_statement"
                    THEN stored \o validator.validation_rules["ratios"] ELSE stored
       IN  /\ validator' = IF statement_type = "income_statement"
                            THEN [validator EXCEPT !.validation_rules[statement_type] = rules]
                            ELSE validator
           /\ result' = Append(result, validate_financial_statement(rules, data))
    /\ UNCHANGED <<at_rest, pc, callee, args, knowledge_base>>

ValidatorSpec ==
    ValidatorInit /\ [][ValidateFinancialStatement]_vars

(***************************************************************************)
(* Properties                                                              *)
(***************************************************************************)
\* a row whose label and matched account agree after lower() and strip()
SelfMatch(row) ==
    strip(lower(row.Label)) = strip(lower(row.Account))

\* a second-pass reply that is a failure or is malformed: no payload, or a
\* JSON object without account, confidence or reasoning, or with a confidence
\* that is no number
FailedOrMalformed(answer) ==
    \/ answer.kind = "fail"
    \/ ~answer.body.has_account
    \/ answer.body.conf_kind # "num"
    \/ ~answer.body.has_reasoning

\* a second-pass reply that proposes a non-empty name which is no key of the
\* account map and which _find_closest_account cannot repair
Unrepairable(answer, A) ==
    /\ answer.kind = "json"
    /\ ~FailedOrMalformed(answer)
    /\ answer.body.account # Empty
    /\ ~HasKey(A, answer.body.account)
    /\ _find_closest_account(answer.body.account, A) = Empty

\* C1: for every label list, account map and method in {ai, structured,
\* fuzzy}, match_accounts returns exactly one entry per label, the k-th entry
\* carrying the k-th label, whatever the remote model answers or however it
\* fails
C1_OneEntryPerLabel ==
    (pc = "done" /\ method \in {"ai", "structured", "fuzzy"}) =>
        /\ Len(df) = Len(labels)
        /\ \A k \in 1..Len(labels) : df[k].Label = labels[k]

\* C1 witness: match_accounts returned the frame of create_mappings for a list
\* that holds the same label twice, after the remote model answered
C1_Witness ==
    /\ pc = "done"
    /\ method = "ai"
    /\ used = "ai"
    /\ ~all_failed
    /\ Len(labels) = 2
    /\ labels[1] = labels[2]

\* C2: in every frame create_mappings returns, an entry's value is the value
\* of its matched account in the account map, and 0 when the matched account
\* is the empty string
C2_ValueOfMatchedAccount ==
    pc = "cm_returned" =>
        \A k \in 1..Len(df) :
            df[k].Value = IF df[k].Account = Empty THEN 0
                          ELSE Get(accounts, df[k].Account)

\* C3: in every frame a strategy returns (fuzzy, structured, create_mappings
\* with or without the second pass), an entry with an empty matched account
\* has tier Low
C3_UnmatchedIsLow ==
    pc \in {"cm_returned", "done"} =>
        \A k \in 1..Len(df) :
            df[k].Account = Empty => df[k].Confidence = "Low"

\* C4: in the frame create_mappings returns, every entry whose label equals
\* its matched account after lowercasing and trimming has score 100 and tier
\* High, also when the second pass set the account
C4_ExactMatchOverrideIsFinal ==
    pc = "cm_returned" =>
        \A k \in 1..Len(df) :
            SelfMatch(df[k]) => df[k].Score = 100 /\ df[k].Confidence = "High"

\* C5: when a label is, ignoring case, the name of an account of the map, the
\* fuzzy and the structured strategy match it to that account with score 100
\* and tier High, wherever that account stands in the map
C5_IdenticalNameWins ==
    (pc = "done" /\ used \in {"fuzzy", "structured"}) =>
        \A k \in 1..Len(df) :
            \A a \in ToSet(Keys(accounts)) :
                lower(a) = lower(labels[k]) =>
                    /\ df[k].Account = a
                    /\ df[k].Score = 100
                    /\ df[k].Confidence = "High"

\* C6: when every request to the remote model fails or brings back an
\* unparsable payload, create_mappings raises nothing and returns, for every
\* label list, the rows of the fuzzy fallback with the exact-match override
\* applied
C6_AllRequestsFailGivesFallback ==
    (pc \in {"cm_returned", "cm_raised"} /\ all_failed) =>
        /\ pc = "cm_returned"
        /\ df = _validate_and_enhance(_fallback_fuzzy_match(labels, accounts))

\* C7: in the second pass, a request that fails or brings back a malformed
\* reply leaves the entry unchanged, and the pass goes on with the remaining
\* entries without aborting create_mappings
C7_MalformedReplyIsIsolated ==
    [][(pc = "pass2" /\ FailedOrMalformed(last_answer')) =>
            /\ df' = df
            /\ pc' \in {"pass2", "cm_returned"}]_vars

\* C8: in the second pass, a reply proposing a non-empty account that is no
\* key of the map and that the closest-match repair cannot resolve counts as
\* no proposal: the entry keeps its account, value, score, tier and rationale
C8_UnrepairableProposalIsDiscarded ==
    [][(pc = "pass2" /\ Unrepairable(last_answer', accounts)) => df' = df]_vars

\* C9: with an empty account map every strategy aborts with an error before
\* a label is matched and before a request is sent; no mapping is returned
C9_EmptyAccountMapAborts ==
    accounts = <<>> =>
        /\ pc \notin {"cm_returned", "done"}
        /\ requests = 0

\* C10: the hybrid strategy yields exactly one entry per input label, in
\* input order: a label without suggestion and without accepted proposal is
\* kept as an unmatched entry, a label given twice yields two entries
C10_HybridOneEntryPerLabel ==
    (pc = "done" /\ method = "hybrid") =>
        /\ Len(mapping) = Len(labels)
        /\ \A k \in 1..Len(labels) : mapping[k].Label = labels[k]

\* C11: in the hybrid strategy, when the request fails, every label that was
\* queued for the remote model is matched as the fuzzy strategy matches it,
\* and nothing is raised
C11_HybridDegradesToFuzzy ==
    (pc \in {"done", "raised"} /\ method = "hybrid" /\ requests > 0 /\ all_failed) =>
        /\ pc = "done"
        /\ \A k \in 1..Len(labels) :
              LET l == labels[k]
                  b == FuzzyBest(l, accounts, 1, Empty, 0)
              IN  (l \in ToSet(labels_for_llm(labels, mapping, confidence_scores))
                      /\ b.match # Empty) =>
                      /\ l \in DictKeys(mapping)
                      /\ DictGet(mapping, l) = b.match

\* C12: the validation pass is idempotent: on every frame create_mappings
\* holds (before validation, after it, during and after the second pass),
\* applying _validate_and_enhance twice gives what applying it once gives
C12_ValidationIdempotent ==
    (used = "ai" /\ df # <<>>) =>
        _validate_and_enhance(_validate_and_enhance(df)) = _validate_and_enhance(df)

\* C12 witness: a frame on which the validation pass changes a row, here a
\* label matched to its own name with a score below 100
C12_Witness ==
    /\ pc = "validate"
    /\ df # <<>>
    /\ _validate_and_enhance(df) # df
    /\ \E k \in 1..Len(df) : SelfMatch(df[k]) /\ df[k].Score < 90

\* the tier an integer score dictates on the 90 / 70 ladder
TierMatchesScore(row) ==
    /\ row.Confidence \in {"High", "Medium", "Low"}
    /\ (row.Confidence = "High") <=> (row.Score >= 90)
    /\ (row.Confidence = "Medium") <=> (row.Score >= 70 /\ row.Score < 90)
    /\ (row.Confidence = "Low") <=> (row.Score < 70)

\* C13: in every frame of create_mappings (after the first pass, after the
\* exact-match override, between the rows of the second pass and on return)
\* every entry has a tier and the tier is the one its integer score
\* dictates, also when batches fell back to fuzzy matching
C13_TierFollowsScore ==
    (used = "ai" /\ pc \in {"pass1", "validate", "pass2", "cm_returned", "done"}) =>
        \A k \in 1..Len(df) : TierMatchesScore(df[k])

\* C13 witness: create_mappings returned a frame in which the second pass
\* rewrote a row, one batch had fallen back to fuzzy matching and a tier
\* other than the first-pass default occurs
C13_Witness ==
    /\ pc = "cm_returned"
    /\ last_answer.kind = "json"
    /\ \E k \in 1..Len(df) : df[k].Reasoning = "Fuzzy match (AI unavailable)"
    /\ \E k \in 1..Len(df) : df[k].Reasoning = "why [Re-validated]"
    /\ \E k \in 1..Len(df) : df[k].Confidence = "Medium"

\* C14: once a run has stored a mapping under a cache key, an Extract & Map
\* with the same template, data and method goes to the cache: it loads the
\* stored mapping, no matcher runs and no request is sent for it, and the
\* cache is left as it was.  Saved edits do not change this; Clear Cache ends it.
C14_CacheHitLoadsStoredMapping ==
    [][\A s \in Sessions :
          /\ (/\ session_state[s].at \in {"idle", "error"}
              /\ session_state'[s].at \notin {"idle", "error"}
              /\ \E f \in Files(CacheKey(s)) : f.stored /\ f.complete)
                 => session_state'[s].at = "load" /\ UNCHANGED <<run, ingest, cache_dir>>
          /\ (/\ session_state[s].at = "load"
              /\ session_state'[s].at # "load"
              /\ hit[s])
                 => /\ session_state'[s].at = "idle"
                    /\ \E f \in Files(CacheKey(s)) :
                          f.complete /\ session_state'[s].mapping_df = f.value
                    /\ UNCHANGED <<run, ingest, cache_dir>>]_vars

\* C15: no session loads a cache file that is not completely written, an
\* Extract & Map that found a cache file ends with a mapping, and once no
\* session has a cache file open every cache file holds a complete mapping
C15_NoPartialLoad ==
    [][/\ \A s \in Sessions :
             (/\ session_state[s].at = "load"
              /\ session_state'[s].at # "load"
              /\ Files(CacheKey(s)) # {})
                 => /\ \A f \in Files(CacheKey(s)) : f.complete
                    /\ session_state'[s].at = "idle"
       /\ (\A s \in Sessions : session_state'[s].at # "dump")
             => \A f \in cache_dir' : f.complete]_vars

\* C16: the account map an ingestion function returns holds no zero value
C16_NoZeroValueIngested ==
    pc = "ingested" => \A k \in 1..Len(data_map) : data_map[k].value # 0

\* C17: the second pass visits exactly the rows that are Medium or Low or
\* have no matched account after validation, in order, with one request for
\* each; a visit changes no other row, so a row that is High with a matched
\* account is returned as validation left it; with double_check off there
\* is no second pass and the validated frame is returned unchanged
C17_SecondPassVisitsUncertainOnly ==
    [][/\ (used = "ai" /\ pc = "validate" /\ pc' # "cm_raised") =>
             /\ \A k \in 1..Len(df') :
                   (k \in ToSet(uncertain')) <=>
                       /\ double_check
                       /\ df'[k].Confidence \in {"Medium", "Low"} \/ df'[k].Account = Empty
             /\ \A m, n \in 1..Len(uncertain') : m < n => uncertain'[m] < uncertain'[n]
             /\ (pc' = "cm_returned") <=> (uncertain' = <<>>)
       /\ (used = "ai" /\ pc = "pass2") =>
             /\ uncertain # <<>>
             /\ requests' = requests + 1
             /\ uncertain' = Tail(uncertain)
             /\ \A k \in 1..Len(df) : k # Head(uncertain) => df'[k] = df[k]
             /\ (pc' = "cm_returned") => (uncertain' = <<>>)
       /\ (used = "ai" /\ pc = "cm_returned" /\ session_state = <<>>) =>
             df' = df /\ requests' = requests]_vars

\* a returned run whose second pass changed a row and left alone a row that
\* was High with a matched account
C17_Witness ==
    /\ pc = "cm_returned"
    /\ double_check
    /\ last_answer.kind = "json"
    /\ \E k \in 1..Len(df) : df[k].Reasoning = "why [Re-validated]"
    /\ \E k \in 1..Len(df) :
          /\ df[k].Confidence = "High"
          /\ df[k].Account # Empty
          /\ df[k].Reasoning # "why [Re-validated]"

\* the rows of df the fuzzy-only strategy has produced: all rows of the fuzzy
\* branch, and in an ai run the rows _fallback_fuzzy_match has written (the
\* frame of a run that raised is discarded)
FuzzyRows ==
    {k \in 1..Len(df) :
        \/ used = "fuzzy" /\ pc = "done"
        \/ /\ used = "ai"
           /\ pc # "cm_raised"
           /\ df[k].Reasoning = "Fuzzy match (AI unavailable)"}

SameCategory(k) ==
    {n \in 1..Len(accounts) : CategoryOf(accounts[n].name) = CategoryOf(df[k].Label)}

\* C19: in the frame of the structured method, when some account has the
\* label's category the matched account, if there is one, has that category;
\* an account of another category is matched only when no account has the
\* label's category
C19_MatchWithinLabelCategory ==
    (pc = "done" /\ used = "structured") =>
        \A k \in 1..Len(df) :
            /\ df[k].Label = labels[k]
            /\ df[k].Account # Empty => HasKey(accounts, df[k].Account)
            /\ (SameCategory(k) # {} /\ df[k].Account # Empty)
                  => CategoryOf(df[k].Account) = CategoryOf(df[k].Label)
            /\ (df[k].Account # Empty
                  /\ CategoryOf(df[k].Account) # CategoryOf(df[k].Label))
                  => SameCategory(k) = {}

\* a label matched within its category although an account of another
\* category scores higher
C19_Witness ==
    /\ pc = "done"
    /\ used = "structured"
    /\ \E k \in 1..Len(df) :
          /\ df[k].Account # Empty
          /\ CategoryOf(df[k].Account) = CategoryOf(df[k].Label)
          /\ \E n \in 1..Len(accounts) :
                /\ n \notin SameCategory(k)
                /\ CombinedTenths(df[k].Label, accounts[n].name)
                      > CombinedTenths(df[k].Label, df[k].Account)

\* the score of row k in hundredths, as the claim has it: the combined score
\* of the matched account, times 1.1 and capped at 100 when the account has
\* the label's category
ClaimedScore(k) ==
    LET raw == IF df[k].Account = Empty THEN 0
               ELSE CombinedTenths(df[k].Label, df[k].Account)
    IN  IF df[k].Account # Empty /\ CategoryOf(df[k].Account) = CategoryOf(df[k].Label)
        THEN Min2(10000, 11 * raw)
        ELSE 10 * raw

C21_FirstCategoryInFixedOrder ==
    LET CategoryOrder == <<"revenue", "expense", "asset", "liability", "equity">>
        KeywordsOf(c) ==
            account_categories[CHOOSE k \in 1..Len(account_categories) :
                                  account_categories[k].category = c].keywords
        HasKeywordOf(c, name) ==
            \E k \in 1..Len(KeywordsOf(c)) : Contains(KeywordsOf(c)[k], lower(name))
    IN  (callee = "categorize_account" /\ pc = "returned") =>
            /\ result \in ToSet(CategoryOrder) \cup {"other"}
            /\ \A i \in 1..Len(CategoryOrder) :
                  result = CategoryOrder[i] <=>
                      /\ HasKeywordOf(CategoryOrder[i], args)
                      /\ \A j \in 1..(i - 1) : ~HasKeywordOf(CategoryOrder[j], args)
            /\ result = "other" <=>
                  \A i \in 1..Len(CategoryOrder) : ~HasKeywordOf(CategoryOrder[i], args)

\* an upper-case name that starts with a keyword of a later category and
\* gets the earlier one
C21_Witness ==
    /\ callee = "categorize_account"
    /\ pc = "returned"
    /\ args = CashUpper \o <<" ">> \o Sales
    /\ result = "revenue"


\* C22: suggest_mapping_for_label returns at most 3 distinct candidates,
\* those with the label's canonical term before those that only share
\* tokens, the latter by overlap count descending and then by candidate
\* order; a candidate with the label's canonical term is never left out
\* while a token-sharing candidate is returned
C22_ExactCanonicalFirst ==
    LET ExactCanonical(a) == Normalized(a) = Normalized(args[1])
        Overlap(a) ==
            Cardinality(ToSet(split(Normalized(args[1]))) \cap ToSet(split(Normalized(a))))
        CandidateIndex(a) == CHOOSE k \in 1..Len(args[2]) : args[2][k] = a
    IN  (callee = "suggest_mapping_for_label" /\ pc = "returned") =>
            /\ Len(result) <= 3
            /\ \A i, j \in 1..Len(result) :
                  /\ i # j => result[i] # result[j]
                  /\ i < j =>
                        /\ ExactCanonical(result[j]) => ExactCanonical(result[i])
                        /\ (~ExactCanonical(result[i]) /\ ~ExactCanonical(result[j])) =>
                              \/ Overlap(result[i]) > Overlap(result[j])
                              \/ /\ Overlap(result[i]) = Overlap(result[j])
                                 /\ CandidateIndex(result[i]) < CandidateIndex(result[j])
            /\ \A a \in ToSet(args[2]) :
                  (ExactCanonical(a) /\ a \notin ToSet(result)) =>
                      \A i \in 1..Len(result) : ExactCanonical(result[i])

\* C23: for a name without an exact entry in the synonym table
\* normalize_account_name returns the lowercased, trimmed name
C23_NoEntryGivesPlainName ==
    (callee = "normalize_account_name" /\ pc = "returned") =>
        LET normalized == strip(lower(args[1]))
            synonyms == knowledge_base.account_synonyms
        IN  IF \E k \in 1..Len(synonyms) : synonyms[k].term = normalized
            THEN \E k \in 1..Len(synonyms) :
                    synonyms[k].term = normalized /\ result = synonyms[k].canonical
            ELSE result = normalized

\* C24: with the knowledge-base files failing to load, the constructed
\* extractor has an empty synonym table and suggest_mapping_for_label
\* returns the empty list
C24_FailedLoadGivesEmptyTable ==
    (pc \in {"call", "returned"} /\ knowledge_base.xbrl_terms = <<>>) =>
        /\ knowledge_base.account_synonyms = <<>>
        /\ (callee = "suggest_mapping_for_label" /\ pc = "returned") => result = <<>>


\* C25: the models are used in list order: the model index never decreases
\* and stays within the list, self.model is the model at that index, and
\* the index moves on by k only in a step that sent k requests that failed
C25_ModelsUsedInListOrder ==
    [][/\ current_model_index \in 0..(NModels - 1)
       /\ model = models[current_model_index + 1]
       /\ current_model_index' \in 0..(NModels - 1)
       /\ model' = models[current_model_index' + 1]
       /\ current_model_index' >= current_model_index
       /\ current_model_index' > current_model_index =>
             /\ pc = "pass1"
             /\ requests' >= requests + (current_model_index' - current_model_index)]_vars

\* the index has moved to the last model over two batches and a frame is
\* complete
C25_Witness ==
    /\ pc = "validate"
    /\ batch_size = 1
    /\ Len(df) = 2
    /\ current_model_index = NModels - 1
    /\ model = models[NModels]
    /\ requests = 4

\* C26: an invocation of _call_ai sends at least one request and at most
\* one to each model from the current one to the end of the list, one more
\* than the models it moves past, and then returns or raises to the batch
\* loop
C26_CallAiSendsOncePerModel ==
    [][pc = "pass1" =>
          LET sent == requests' - requests
          IN  /\ sent \in 1..(NModels - current_model_index)
              /\ sent <= NModels
              /\ sent = (current_model_index' - current_model_index) + 1
              /\ pc' \in {"pass1", "validate"}
              /\ Len(df') > Len(df)]_vars

\* an invocation that has gone through the whole list from the first model
C26_Witness ==
    /\ pc \in {"pass1", "validate"}
    /\ batch_i = 1 + batch_size
    /\ requests = NModels
    /\ current_model_index = NModels - 1


\* C27: every mapping a strategy returns matches a label to a key of the
\* account map or to the empty string, whatever names the remote model
\* proposes in the first or the second pass
C27_MatchedAccountIsKey ==
    /\ (pc \in {"cm_returned", "done"} /\ method # "hybrid") =>
          \A k \in 1..Len(df) :
              df[k].Account = Empty \/ HasKey(accounts, df[k].Account)
    /\ (pc = "done" /\ method = "hybrid") =>
          \A k \in 1..Len(mapping) :
              mapping[k].Account = Empty \/ HasKey(accounts, mapping[k].Account)

\* a second-pass proposal in another spelling than the key's has been
\* replaced by the key
C27_Witness ==
    /\ pc = "done"
    /\ used = "ai"
    /\ last_answer.kind = "json"
    /\ last_answer.body.has_account
    /\ last_answer.body.account = CashLower
    /\ ~HasKey(accounts, CashLower)
    /\ \E k \in 1..Len(df) : df[k].Account = Cash /\ df[k].Score = last_answer.body.confidence


\* C28: a mapping stored in the cache under the key of method m was produced
\* by strategy m; the entry of method 'ai' is never a frame of the
\* structured fallback.  A frame shows its strategy by its columns: the AI
\* mapper writes 'AI Reasoning', the structured mapper 'Category', the
\* fuzzy loop neither.
C28_CacheEntryProducedByItsMethod ==
    LET ProducedBy(frame) ==
            IF \E k \in 1..Len(frame) : frame[k].Category # NoColumn THEN "structured"
            ELSE IF \E k \in 1..Len(frame) : frame[k].Reasoning # NoColumn THEN "ai"
            ELSE "fuzzy"
    IN  \A s \in Sessions :
            \A f \in Files(CacheKey(s)) :
                f.complete => ProducedBy(f.value) = session_state[s].mapping_method

\* C29: two sessions whose (template bytes, data bytes, method) differ have
\* no cache file in common: neither reads nor overwrites the other's entry
C29_DistinctTriplesDistinctEntries ==
    \A s1, s2 \in Sessions :
        (<<session_state[s1].template_bytes, session_state[s1].data_bytes,
           session_state[s1].mapping_method>>
            # <<session_state[s2].template_bytes, session_state[s2].data_bytes,
                session_state[s2].mapping_method>>)
            => Files(CacheKey(s1)) \cap Files(CacheKey(s2)) = {}


\* C30: validate_financial_statement is repeatable on one validator: with
\* the same income-statement data every call runs the same rules and
\* returns the same results and check counts, and the stored rule lists
\* stay as constructed
C30_ValidationRepeatable ==
    (callee = "validate_financial_statement"
        /\ _detect_statement_type(args[1]) = "income_statement") =>
        /\ validator.validation_rules = validation_rules
        /\ \A i \in 1..Len(result) : result[i] = result[1]

=============================================================================
